---- MODULE Spec2Model ----
(***************************************************************************)
(* A model of extract_streams.py: the two-stage pipeline (playlist         *)
(* fetchers feeding stream probers), its progress store, its checkpoints   *)
(* and its signal handler.                                                 *)
(*                                                                         *)
(* Text is modelled as a tuple of one-character strings, so that the       *)
(* regular expressions of the content filter are evaluated character by    *)
(* character.  A dict that the program iterates (the stream map) is a      *)
(* sequence of entries with distinct keys, in insertion order.             *)
(***************************************************************************)
EXTENDS Integers, Sequences, FiniteSets, TLC

(***************************************************************************)
(* Bounds of the model.                                                    *)
(***************************************************************************)
\* number of invocations of the program that share the progress files
MaxRuns == 2

\* what the environment does over all the invocations: the signals and
\* kills it delivers, the times it asks for --reprocess-playlists and the
\* times SAVE_INTERVAL elapses while a wave is drained
MaxEvents == 1

(***************************************************************************)
(* Text helpers.                                                           *)
(***************************************************************************)
Letters == <<"a","b","c","d","e","f","g","h","i","j","k","l","m",
             "n","o","p","q","r","s","t","u","v","w","x","y","z">>

Capitals == <<"A","B","C","D","E","F","G","H","I","J","K","L","M",
              "N","O","P","Q","R","S","T","U","V","W","X","Y","Z">>

Digits == {"0","1","2","3","4","5","6","7","8","9"}

\* str.lower() on one character
LowerChar(c) ==
  IF \E i \in DOMAIN Capitals : Capitals[i] = c
    THEN Letters[CHOOSE i \in DOMAIN Capitals : Capitals[i] = c]
    ELSE c

\* str.lower()
Lower(s) == [i \in DOMAIN s |-> LowerChar(s[i])]

\* \w of the re module, on the characters the model uses
IsWordChar(c) ==
  \/ \E i \in DOMAIN Letters : Letters[i] = c
  \/ \E i \in DOMAIN Capitals : Capitals[i] = c
  \/ c \in Digits
  \/ c = "_"

\* \s of the re module, on the characters the model uses
IsSpace(c) == c = " "

\* \b at offset p of s (0 <= p <= Len(s)): exactly one side is a word character
WordBoundary(s, p) ==
  LET before == p >= 1 /\ IsWordChar(s[p])
      after  == p < Len(s) /\ IsWordChar(s[p + 1])
  IN  before # after

(***************************************************************************)
(* A pattern element is a literal character, "\\s*" (written SP) or an     *)
(* optional character (written <<"?", c>>).  MatchEnds(pat, s, p) is the   *)
(* set of offsets at which a match of pat can end when it starts at        *)
(* offset p of s.                                                          *)
(***************************************************************************)
SP == <<"s*">>

RECURSIVE MatchEnds(_, _, _)
MatchEnds(pat, s, p) ==
  IF pat = <<>> THEN {p}
  ELSE
    LET e    == Head(pat)
        rest == Tail(pat)
    IN  IF e = SP
          THEN MatchEnds(rest, s, p)
               \cup (IF p < Len(s) /\ IsSpace(s[p + 1])
                       THEN MatchEnds(pat, s, p + 1) ELSE {})
        ELSE IF Len(e) = 2
          THEN MatchEnds(rest, s, p)
               \cup (IF p < Len(s) /\ s[p + 1] = e[2]
                       THEN MatchEnds(rest, s, p + 1) ELSE {})
        ELSE IF p < Len(s) /\ s[p + 1] = e[1]
          THEN MatchEnds(rest, s, p + 1)
          ELSE {}

\* a literal word as a pattern
Lit(w) == [i \in DOMAIN w |-> <<w[i]>>]

\* re.search(r'\b(alt1|alt2|...)\b', s)
SearchWord(alts, s) ==
  \E a \in alts : \E p \in 0..Len(s) :
     /\ WordBoundary(s, p)
     /\ \E q \in MatchEnds(a, s, p) : WordBoundary(s, q)

(***************************************************************************)
(* Configuration flags (the defaults of the command line).                 *)
(***************************************************************************)
ENABLE_FILTERS == TRUE

INCLUDE_RADIO == FALSE

INCLUDE_ADULT == FALSE

PAT_MOVIES ==
  { Lit(<<"m","o","v","i","e">>), Lit(<<"f","i","l","m">>),
    Lit(<<"c","i","n","e","m","a">>), Lit(<<"p","e","l","i","c","u","l","a">>),
    Lit(<<"f","i","l","m","e">>), Lit(<<"c","i","n","e">>) }

PAT_SERIES ==
  { Lit(<<"s","e","r","i","e","s">>),
    Lit(<<"t","v">>) \o <<SP>> \o Lit(<<"s","h","o","w">>),
    Lit(<<"s","e","a","s","o","n">>), Lit(<<"e","p","i","s","o","d","e">>),
    Lit(<<"e","p","i","s","o","d","i","o">>),
    Lit(<<"t","e","m","p","o","r","a","d","a">>),
    Lit(<<"c","a","p","i","t","u","l","o">>) }

PAT_247 ==
  { Lit(<<"2","4">>) \o << <<"?", "/">> >> \o Lit(<<"7">>),
    Lit(<<"2","4","h">>), Lit(<<"2","4","h","s">>),
    Lit(<<"2","4">>) \o <<SP>> \o Lit(<<"h">>),
    Lit(<<"2","4">>) \o <<SP>> \o Lit(<<"h","s">>),
    Lit(<<"2","4">>) \o <<SP>> \o Lit(<<"h","o","u","r">>),
    Lit(<<"n","o","n","-","s","t","o","p">>),
    Lit(<<"n","o","n","s","t","o","p">>) }

PAT_VOD ==
  { Lit(<<"v","o","d">>),
    Lit(<<"o","n">>) \o <<SP>> \o Lit(<<"d","e","m","a","n","d">>),
    Lit(<<"c","a","t","c","h">>) \o <<SP>> \o Lit(<<"u","p">>),
    Lit(<<"r","e","p","l","a","y">>) }

PAT_ADULT ==
  { Lit(<<"x","x","x">>), Lit(<<"a","d","u","l","t">>),
    Lit(<<"p","o","r","n">>), Lit(<<"s","e","x","y">>),
    Lit(<<"+","1","8">>), Lit(<<"1","8","+">>),
    Lit(<<"e","r","o","t","i","c">>), Lit(<<"p","l","a","y","b","o","y">>),
    Lit(<<"h","u","s","t","l","e","r">>) }

PAT_RADIO == { Lit(<<"r","a","d","i","o">>), Lit(<<"f","m">>) }

\* build_filter_patterns(): the value it leaves in EXCLUDE_PATTERNS
EXCLUDE_PATTERNS ==
  IF ~ENABLE_FILTERS THEN {}
  ELSE {PAT_MOVIES, PAT_SERIES, PAT_247, PAT_VOD}
       \cup (IF ~INCLUDE_ADULT THEN {PAT_ADULT} ELSE {})
       \cup (IF ~INCLUDE_RADIO THEN {PAT_RADIO} ELSE {})

should_filter_stream(channel_name, group_title) ==
  IF ~ENABLE_FILTERS THEN FALSE
  ELSE LET text == Lower(channel_name \o <<" ">> \o group_title)
       IN  \E pattern \in EXCLUDE_PATTERNS : SearchWord(pattern, text)

(***************************************************************************)
(* More text helpers: upper case, substrings, ordering by code point.      *)
(***************************************************************************)
\* str.upper() on one character
UpperChar(c) ==
  IF \E i \in DOMAIN Letters : Letters[i] = c
    THEN Capitals[CHOOSE i \in DOMAIN Letters : Letters[i] = c]
    ELSE c

\* str.upper()
Upper(s) == [i \in DOMAIN s |-> UpperChar(s[i])]

\* s[p:].startswith(w), p an offset
StartsWithAt(s, p, w) ==
  /\ p + Len(w) <= Len(s)
  /\ \A i \in 1..Len(w) : s[p + i] = w[i]

\* s.startswith(w)
StartsWith(s, w) == StartsWithAt(s, 0, w)

\* s.endswith(w)
EndsWith(s, w) == Len(w) <= Len(s) /\ StartsWithAt(s, Len(s) - Len(w), w)

\* w in s
Contains(s, w) == \E p \in 0..Len(s) : StartsWithAt(s, p, w)

\* s.strip()
Strip(s) ==
  IF \A i \in DOMAIN s : IsSpace(s[i]) THEN <<>>
  ELSE LET a == CHOOSE i \in DOMAIN s :
                  ~IsSpace(s[i]) /\ \A j \in 1..(i - 1) : IsSpace(s[j])
           b == CHOOSE i \in DOMAIN s :
                  ~IsSpace(s[i]) /\ \A j \in (i + 1)..Len(s) : IsSpace(s[j])
       IN  SubSeq(s, a, b)

\* the characters of the model, in code point order
Alphabet ==
  <<" ", "#", "(", ")", "+", "-", ".", "/">>
  \o <<"0","1","2","3","4","5","6","7","8","9">>
  \o Capitals \o <<"[", "]", "_">> \o Letters

Ord(c) == CHOOSE i \in DOMAIN Alphabet : Alphabet[i] = c

\* a < b for str
RECURSIVE StrLess(_, _)
StrLess(a, b) ==
  IF b = <<>> THEN FALSE
  ELSE IF a = <<>> THEN TRUE
  ELSE IF a[1] # b[1] THEN Ord(a[1]) < Ord(b[1])
  ELSE StrLess(Tail(a), Tail(b))

\* sorted(S) for a set of str
RECURSIVE SortedStrs(_)
SortedStrs(S) ==
  IF S = {} THEN <<>>
  ELSE LET m == CHOOSE a \in S : \A b \in S \ {a} : StrLess(a, b)
       IN  <<m>> \o SortedStrs(S \ {m})

(***************************************************************************)
(* Country resolver.                                                       *)
(***************************************************************************)
\* the value None
None == <<>>

C_UNKNOWN == <<"U","n","k","n","o","w","n">>

\* country_map of extract_country_from_tvg_id: the TLDs it knows
TLD_CODES ==
  { <<"B","R">>, <<"U","S">>, <<"U","K">>, <<"C","A">>, <<"A","R">>,
    <<"M","X">>, <<"E","S">>, <<"F","R">>, <<"D","E">>, <<"I","T">>,
    <<"P","T">>, <<"C","L">>, <<"C","O">>, <<"P","E">>, <<"V","E">>,
    <<"E","C">> }

\* country_prefixes of extract_country_from_tvg_id, in dict order
PREFIX_CODES ==
  << <<"b","r">>, <<"u","s">>, <<"u","k">>, <<"c","a">>, <<"a","r">>,
     <<"m","x">>, <<"e","s">>, <<"f","r">>, <<"d","e">>, <<"i","t">>,
     <<"p","t">>, <<"c","l">> >>

\* tvg_id.split('.')[-1]
LastDotPart(s) ==
  IF \E i \in DOMAIN s : s[i] = "."
    THEN LET d == CHOOSE i \in DOMAIN s :
                    s[i] = "." /\ \A j \in (i + 1)..Len(s) : s[j] # "."
         IN  SubSeq(s, d + 1, Len(s))
    ELSE s

extract_country_from_tvg_id(tvg_id) ==
  IF tvg_id = <<>> THEN None
  ELSE
    LET tvg_id_lower == Lower(tvg_id)
        potential_country == Upper(LastDotPart(tvg_id))
        hits == {i \in DOMAIN PREFIX_CODES :
                   \E sep \in {"#", "-", "_"} :
                      StartsWith(tvg_id_lower, PREFIX_CODES[i] \o <<sep>>)}
    IN  IF (\E i \in DOMAIN tvg_id : tvg_id[i] = ".")
           /\ potential_country \in TLD_CODES
          THEN potential_country
        ELSE IF hits # {}
          THEN Upper(PREFIX_CODES[CHOOSE i \in hits : \A j \in hits : i <= j])
        ELSE None

W_USA == <<"U","S","A">>

W_UNITED_STATES == <<"U","N","I","T","E","D"," ","S","T","A","T","E","S">>

W_AMERICA == <<"A","M","E","R","I","C","A">>

W_UNITED_KINGDOM == <<"U","N","I","T","E","D"," ","K","I","N","G","D","O","M">>

W_ENGLAND == <<"E","N","G","L","A","N","D">>

W_BRITISH == <<"B","R","I","T","I","S","H">>

W_INTERNATIONAL == <<"I","N","T","E","R","N","A","T","I","O","N","A","L">>

\* priority_checks followed by other_countries, in the order they are tried
COUNTRY_CHECKS ==
  << [code |-> <<"U","S">>, keywords |-> <<W_USA, W_UNITED_STATES, W_AMERICA>>],
     [code |-> <<"U","K">>,
      keywords |-> <<W_UNITED_KINGDOM, <<"U","K">>, <<"G","B">>, W_ENGLAND,
                     W_BRITISH>>],
     [code |-> <<"I","N","T">>,
      keywords |-> <<W_INTERNATIONAL, <<"I","N","T">> >>],
     [code |-> <<"A","R">>,
      keywords |-> << <<"A","R","G","E","N","T","I","N","A">>, <<"A","R">> >>],
     [code |-> <<"B","R">>,
      keywords |-> << <<"B","R","A","Z","I","L">>, <<"B","R","A","S","I","L">>,
                      <<"B","R">> >>],
     [code |-> <<"C","A">>,
      keywords |-> << <<"C","A","N","A","D","A">>, <<"C","A">> >>],
     [code |-> <<"D","E">>,
      keywords |-> << <<"G","E","R","M","A","N","Y">>,
                      <<"D","E","U","T","S","C","H","L","A","N","D">>,
                      <<"D","E">> >>],
     [code |-> <<"E","S">>,
      keywords |-> << <<"S","P","A","I","N">>, <<"E","S","P","A","N~","A">>,
                      <<"E","S">> >>],
     [code |-> <<"F","R">>,
      keywords |-> << <<"F","R","A","N","C","E">>, <<"F","R">> >>],
     [code |-> <<"I","T">>,
      keywords |-> << <<"I","T","A","L","Y">>, <<"I","T","A","L","I","A">>,
                      <<"I","T">> >>],
     [code |-> <<"M","X">>,
      keywords |-> << <<"M","E","X","I","C","O">>, <<"M","X">> >>],
     [code |-> <<"P","T">>,
      keywords |-> << <<"P","O","R","T","U","G","A","L">>, <<"P","T">> >>] >>

\* a faulty test, which looks for every keyword as a substring: C26 must
\* notice it
SubstringMatches(keyword, text) == Contains(text, keyword)

\* the test extract_country_code makes for one keyword
KeywordMatches(keyword, text) ==
  IF Len(keyword) <= 3
    THEN \/ Contains(<<" ">> \o text \o <<" ">>, <<" ">> \o keyword \o <<" ">>)
         \/ StartsWith(text, keyword \o <<" ">>)
         \/ EndsWith(text, <<" ">> \o keyword)
    ELSE Contains(text, keyword)

extract_country_code(group_title, channel_name) ==
  LET text == Upper(group_title \o <<" ">> \o channel_name)
      hits == {i \in DOMAIN COUNTRY_CHECKS :
                 \E k \in DOMAIN COUNTRY_CHECKS[i].keywords :
                    KeywordMatches(COUNTRY_CHECKS[i].keywords[k], text)}
  IN  IF hits = {} THEN C_UNKNOWN
      ELSE COUNTRY_CHECKS[CHOOSE i \in hits : \A j \in hits : i <= j].code

\* the country check_stream_worker stores in a working result
ResolveCountry(info) ==
  LET country == extract_country_from_tvg_id(info.tvg_id)
  IN  IF country = None
        THEN extract_country_code(info.group_title, info.channel_name)
        ELSE country

(***************************************************************************)
(* The world outside the program: the playlist URLs found in the SQL dump  *)
(* and what each URL serves.                                               *)
(***************************************************************************)
\* 'Unknown', the value for a bitrate or resolution the backend cannot tell
W_UNKNOWN_VALUE == <<"U","n","k","n","o","w","n">>

N_CNN == <<"C","N","N">>

N_BBC == <<"B","B","C"," ","N","e","w","s">>

N_MOVIE == <<"M","o","v","i","e"," ","1">>

G_NEWS == <<"N","e","w","s">>

G_VOD == <<"V","O","D">>

sCNN == [url |-> "http://x/cnn",
         info |-> [tvg_id |-> <<"C","N","N",".","u","s">>,
                   channel_name |-> N_CNN, group_title |-> G_NEWS]]

sBBC == [url |-> "http://x/bbc",
         info |-> [tvg_id |-> <<>>,
                   channel_name |-> N_BBC, group_title |-> G_NEWS]]

G_GENERAL == <<"G","e","n","e","r","a","l">>

N_HBO == <<"H","B","O"," ","M","o","v","i","e","s">>

N_RADIO == <<"R","a","d","i","o"," ","F","M"," ","M","i","x">>

sHBO == [url |-> "http://x/hbo",
         info |-> [tvg_id |-> <<>>,
                   channel_name |-> N_HBO, group_title |-> G_GENERAL]]

sRADIO == [url |-> "http://x/radio",
           info |-> [tvg_id |-> <<>>,
                     channel_name |-> N_RADIO, group_title |-> G_GENERAL]]

sMOV == [url |-> "http://x/m1",
         info |-> [tvg_id |-> <<>>,
                   channel_name |-> N_MOVIE, group_title |-> G_VOD]]

\* extract_urls_from_sql(): the unique playlist URLs of the dump, in order
InputUrls == <<"http://p/1", "http://p/2", "http://p/3", "http://p/4">>

\* a second dump, with one playlist URL
ExampleUrls == <<"http://p/5">>

\* every playlist URL of the world
WorldUrls == {InputUrls[i] : i \in DOMAIN InputUrls}
             \cup {ExampleUrls[i] : i \in DOMAIN ExampleUrls}

\* download_and_parse_playlist(url): the streams parsed from what the URL
\* serves; the empty list for a URL that times out or serves no entry
PlaylistBody(url) ==
  CASE url = "http://p/1" -> <<sCNN, sMOV, sCNN>>
    [] url = "http://p/2" -> <<sMOV, sMOV>>
    [] url = "http://p/3" -> <<sCNN, sBBC>>
    [] url = "http://p/5" -> <<sHBO, sRADIO, sBBC>>
    [] OTHER -> <<>>

\* what the probing backend can do on one call of check_channel_status
BackendOutcomes == {"Alive", "Dead", "Raise"}

\* get_detailed_stream_info(url) of the backend: what it reports for a stream
get_detailed_stream_info(url) ==
  IF url = "http://x/cnn"
    THEN [video_bitrate |-> <<"5","0","0","0"," ","k","b","/","s">>,
          resolution |-> <<"1","0","8","0","p">>]
    ELSE [video_bitrate |-> W_UNKNOWN_VALUE, resolution |-> W_UNKNOWN_VALUE]

(***************************************************************************)
(* Stream organizer and output writer.                                     *)
(***************************************************************************)
DigitChars == <<"0","1","2","3","4","5","6","7","8","9">>

DigitVal(c) == (CHOOSE i \in DOMAIN DigitChars : DigitChars[i] = c) - 1

\* str(n) for n >= 0
RECURSIVE IntStr(_)
IntStr(n) ==
  IF n < 10 THEN <<DigitChars[n + 1]>>
  ELSE IntStr(n \div 10) \o <<DigitChars[(n % 10) + 1]>>

\* int(digits)
RECURSIVE IntOf(_)
IntOf(ds) ==
  IF ds = <<>> THEN 0
  ELSE 10 * IntOf(SubSeq(ds, 1, Len(ds) - 1)) + DigitVal(ds[Len(ds)])

W_NA == <<"N","/","A">>

extract_bitrate_value(bitrate_str) ==
  IF bitrate_str = <<>> \/ bitrate_str = W_UNKNOWN_VALUE \/ bitrate_str = W_NA
    THEN 0
  ELSE IF \E i \in DOMAIN bitrate_str : bitrate_str[i] \in Digits
    THEN LET a == CHOOSE i \in DOMAIN bitrate_str :
                    /\ bitrate_str[i] \in Digits
                    /\ \A j \in 1..(i - 1) : bitrate_str[j] \notin Digits
             b == CHOOSE i \in a..Len(bitrate_str) :
                    /\ \A j \in a..i : bitrate_str[j] \in Digits
                    /\ (i = Len(bitrate_str) \/ bitrate_str[i + 1] \notin Digits)
         IN  IntOf(SubSeq(bitrate_str, a, b))
  ELSE 0

\* the offset after the run of white space that starts at offset p
RECURSIVE SkipSpaces(_, _)
SkipSpaces(s, p) ==
  IF p < Len(s) /\ IsSpace(s[p + 1]) THEN SkipSpaces(s, p + 1) ELSE p

\* re.sub(r'\s*\(.*?\)\s*', '', s), scanning from offset p
RECURSIVE SubParens(_, _)
SubParens(s, p) ==
  IF p >= Len(s) THEN <<>>
  ELSE
    LET j == SkipSpaces(s, p)
        closes == {c \in (j + 2)..Len(s) : s[c] = ")"}
    IN  IF j < Len(s) /\ s[j + 1] = "(" /\ closes # {}
          THEN LET c == CHOOSE c \in closes : \A d \in closes : c <= d
               IN  SubParens(s, SkipSpaces(s, c))
          ELSE <<s[p + 1]>> \o SubParens(s, p + 1)

QUALITY_TAGS == << <<"H","D">>, <<"F","H","D">>, <<"4","K">>, <<"U","H","D">>,
                   <<"S","D">> >>

\* re.sub(r'\s*(HD|FHD|4K|UHD|SD)\s*', '', s, flags=re.IGNORECASE), from offset p
RECURSIVE SubTags(_, _)
SubTags(s, p) ==
  IF p >= Len(s) THEN <<>>
  ELSE
    LET j == SkipSpaces(s, p)
        tags == {t \in DOMAIN QUALITY_TAGS :
                   StartsWithAt(Upper(s), j, QUALITY_TAGS[t])}
    IN  IF tags # {}
          THEN LET t == CHOOSE t \in tags : \A u \in tags : t <= u
               IN  SubTags(s, SkipSpaces(s, j + Len(QUALITY_TAGS[t])))
          ELSE <<s[p + 1]>> \o SubTags(s, p + 1)

\* base_name of organize_streams_by_country_and_bitrate
BaseName(channel_name) == Strip(SubTags(SubParens(channel_name, 0), 0))

(***************************************************************************)
(* The functions of the text of a stream, applied to the streams of the    *)
(* world once and for all.                                                 *)
(***************************************************************************)
\* the streams the playlists of the world list
WorldStreams == UNION {{PlaylistBody(u)[j] : j \in DOMAIN PlaylistBody(u)} :
                       u \in WorldUrls}

\* should_filter_stream(info['channel_name'], info['group_title'])
Filtered == [s \in WorldStreams |->
               should_filter_stream(s.info.channel_name, s.info.group_title)]

\* the country check_stream_worker finds for a stream
CountryOf == [s \in WorldStreams |-> ResolveCountry(s.info)]

\* extract_country_from_tvg_id on the tvg_id of a stream
TvgCountryOf == [id \in {s.info.tvg_id : s \in WorldStreams} |->
                   extract_country_from_tvg_id(id)]

\* base_name of organize_streams_by_country_and_bitrate for a channel name
BaseNameOf == [n \in {s.info.channel_name : s \in WorldStreams} |-> BaseName(n)]

\* extract_bitrate_value on what the backend reports for a stream
BitrateOf == [v \in {get_detailed_stream_info(s.url).video_bitrate :
                       s \in WorldStreams} |-> extract_bitrate_value(v)]

\* list.sort(key=..., reverse=True): descending and stable
RECURSIVE SortByBitrate(_)
SortByBitrate(streams) ==
  IF streams = <<>> THEN <<>>
  ELSE
    LET n == Len(streams)
        front == SortByBitrate(SubSeq(streams, 1, n - 1))
        v == BitrateOf[streams[n].video_bitrate]
        at == Cardinality({i \in DOMAIN front :
                             BitrateOf[front[i].video_bitrate] >= v})
    IN  SubSeq(front, 1, at) \o <<streams[n]>> \o SubSeq(front, at + 1, Len(front))

\* the label the loop over one group gives position idx (from 0)
GroupLabel(base_name, idx) ==
  IF idx = 0 THEN base_name
  ELSE base_name \o <<" ","b","a","c","k","u","p"," ">> \o IntStr(idx)

(***************************************************************************)
(* One group, labelled.  The loop stores the label in the result itself    *)
(* (stream['final_name'] = ...).  A result that is twice in the group is   *)
(* one object, so both entries carry the label stored last.                *)
(***************************************************************************)
LabelGroup(base_name, channel_streams) ==
  [i \in DOMAIN channel_streams |->
     LET last == CHOOSE j \in DOMAIN channel_streams :
                   /\ channel_streams[j] = channel_streams[i]
                   /\ \A k \in DOMAIN channel_streams :
                        channel_streams[k] = channel_streams[i] => k <= j
     IN  [stream |-> channel_streams[i],
          final_name |-> GroupLabel(base_name, last - 1)]]

RECURSIVE ConcatGroups(_, _)
\* sorted_channels: the labelled groups of one country, by sorted base name
ConcatGroups(names, streams) ==
  IF names = <<>> THEN <<>>
  ELSE LET bn == Head(names)
           group == SelectSeq(streams,
                      LAMBDA r : BaseNameOf[r.info.channel_name] = bn)
       IN  LabelGroup(bn, SortByBitrate(group)) \o ConcatGroups(Tail(names), streams)

\* organized[country]
OrganizedCountry(working, country) ==
  LET streams == SelectSeq(working, LAMBDA r : r.country = country)
      names == {BaseNameOf[streams[i].info.channel_name] : i \in DOMAIN streams}
  IN  ConcatGroups(SortedStrs(names), streams)

RECURSIVE ConcatCountries(_, _)
ConcatCountries(countries, working) ==
  IF countries = <<>> THEN <<>>
  ELSE OrganizedCountry(working, Head(countries))
       \o ConcatCountries(Tail(countries), working)

\* organize_streams_by_country_and_bitrate(working), as the sequence of
\* entries in the order write_m3u_output walks it (sorted countries)
organize_streams_by_country_and_bitrate(working) ==
  ConcatCountries(SortedStrs({working[i].country : i \in DOMAIN working}), working)

\* a faulty writer, which copies the group title of the source playlist:
\* C20 must notice it
WriteSourceGroup(organized_streams) ==
  [i \in DOMAIN organized_streams |->
     LET e == organized_streams[i]
     IN  [tvg_id |-> e.stream.info.tvg_id,
          group_title |-> e.stream.info.group_title,
          name |-> e.final_name \o <<" ","[">> \o e.stream.resolution
                   \o <<" ">> \o e.stream.video_bitrate \o <<"]">>,
          url |-> e.stream.url]]

\* the entries write_m3u_output writes: the #EXTINF line's parts and the URL
write_m3u_output(organized_streams) ==
  [i \in DOMAIN organized_streams |->
     LET e == organized_streams[i]
     IN  [tvg_id |-> e.stream.info.tvg_id,
          group_title |-> e.stream.country,
          name |-> e.final_name \o <<" ","[">> \o e.stream.resolution
                   \o <<" ">> \o e.stream.video_bitrate \o <<"]">>,
          url |-> e.stream.url]]

(***************************************************************************)
(* The playlist parser: download_and_parse_playlist from the lines of the  *)
(* downloaded content on, and parse_channel_info.                          *)
(***************************************************************************)
\* re.search(key + r'="([^"]*)"', line): group 1 of the first match, or ''
AttrValue(line, key) ==
  LET open == key \o <<"=", "\"">>
      starts == {p \in 0..Len(line) : StartsWithAt(line, p, open)}
      from(p) == p + Len(open) + 1
      closed == {p \in starts : \E q \in from(p)..Len(line) : line[q] = "\""}
  IN  IF closed = {} THEN <<>>
      ELSE LET p == CHOOSE p \in closed : \A q \in closed : p <= q
               e == CHOOSE e \in from(p)..Len(line) :
                      /\ line[e] = "\""
                      /\ \A q \in from(p)..(e - 1) : line[q] # "\""
           IN  SubSeq(line, from(p), e - 1)

\* parse_channel_info(extinf_line), without tvg_name and tvg_logo
parse_channel_info(extinf_line) ==
  LET commas == {p \in DOMAIN extinf_line : extinf_line[p] = ","}
  IN  [tvg_id |-> AttrValue(extinf_line, <<"t","v","g","-","i","d">>),
       group_title |->
         AttrValue(extinf_line, <<"g","r","o","u","p","-","t","i","t","l","e">>),
       channel_name |->
         IF commas = {} THEN <<>>
         ELSE LET p == CHOOSE p \in commas : \A q \in commas : q <= p
              IN  Strip(SubSeq(extinf_line, p + 1, Len(extinf_line)))]

W_EXTINF == <<"#","E","X","T","I","N","F">>

W_EXTM3U == <<"#","E","X","T","M","3","U">>

\* the while loop of download_and_parse_playlist over `lines`, from index i
\* (from 0) on
RECURSIVE ParseFrom(_, _)
ParseFrom(lines, i) ==
  IF i >= Len(lines) THEN <<>>
  ELSE
    LET line == Strip(lines[i + 1])
    IN  IF StartsWith(line, W_EXTINF)
          THEN IF i + 1 < Len(lines)
                 THEN LET stream_url == Strip(lines[i + 2])
                      IN  (IF stream_url # <<>> /\ ~StartsWith(stream_url, <<"#">>)
                             THEN <<[url |-> stream_url,
                                     info |-> parse_channel_info(line)]>>
                             ELSE <<>>)
                          \o ParseFrom(lines, i + 2)
                 ELSE <<>>
          ELSE ParseFrom(lines, i + 1)

\* the streams download_and_parse_playlist returns for content.split('\n')
download_and_parse_playlist(lines) == ParseFrom(lines, 0)

\* the characters of a stream URL of the world
UrlChars(url) ==
  <<"h","t","t","p",":","/","/","x","/">> \o
  (CASE url = "http://x/cnn" -> <<"c","n","n">>
     [] url = "http://x/bbc" -> <<"b","b","c">>
     [] url = "http://x/hbo" -> <<"h","b","o">>
     [] url = "http://x/radio" -> <<"r","a","d","i","o">>
     [] OTHER -> <<"m","1">>)

\* the lines of the file write_m3u_output writes for `entries` (the date of
\* the second header line left out)
RECURSIVE OutputLines(_, _)
OutputLines(entries, i) ==
  IF i > Len(entries)
    THEN IF i = 1
           THEN <<W_EXTM3U, <<"#"," ","G","e","n","e","r","a","t","e","d",":">>,
                  <<"#"," ","O","r","g","a","n","i","z","e","d">>, <<>> >>
           ELSE <<>>
    ELSE
      LET e == entries[i]
          n == Cardinality({j \in DOMAIN entries :
                              entries[j].group_title = e.group_title})
          header ==
            IF i = 1 \/ entries[i - 1].group_title # e.group_title
              THEN << <<>>,
                      <<"#"," ","=","=","=","=","="," ">> \o e.group_title
                      \o <<" ","(">> \o IntStr(n)
                      \o <<" ","s","t","r","e","a","m","s",")"," ","=","=","=","=","=">> >>
              ELSE <<>>
          extinf ==
            W_EXTINF \o <<":","-","1">>
            \o (IF e.tvg_id # <<>>
                  THEN <<" ","t","v","g","-","i","d","=","\"">> \o e.tvg_id \o <<"\"">>
                  ELSE <<>>)
            \o <<" ","g","r","o","u","p","-","t","i","t","l","e","=","\"">>
            \o e.group_title \o <<"\"",",">> \o e.name
      IN  (IF i = 1 THEN OutputLines(<<>>, 1) ELSE <<>>)
          \o header \o <<extinf, UrlChars(e.url)>> \o OutputLines(entries, i + 1)

(***************************************************************************)
(* Sequence and dict helpers.                                              *)
(***************************************************************************)
Range(s) == {s[i] : i \in DOMAIN s}

RECURSIVE SelectSeqBy(_, _)
\* the entries of s whose position is in keep, in order
SelectSeqBy(s, keep) ==
  IF s = <<>> THEN <<>>
  ELSE LET n == Len(s)
           front == SelectSeqBy(SubSeq(s, 1, n - 1), keep)
       IN  IF n \in keep THEN Append(front, s[n]) ELSE front

\* stream_key = f"{channel_name}_{stream_url}"
StreamKey(stream) == <<stream.info.channel_name, stream.url>>

\* the key under which a result is stored
ResultKey(r) == <<r.channel_name, r.url>>

\* stream_key in stream_progress
HasKey(m, k) == \E i \in DOMAIN m : ResultKey(m[i]) = k

\* stream_progress[stream_key]
GetKey(m, k) == m[CHOOSE i \in DOMAIN m : ResultKey(m[i]) = k]

\* stream_progress[stream_key] = result
PutKey(m, r) ==
  IF HasKey(m, ResultKey(r))
    THEN [i \in DOMAIN m |-> IF ResultKey(m[i]) = ResultKey(r) THEN r ELSE m[i]]
    ELSE Append(m, r)

Keys(m) == {ResultKey(m[i]) : i \in DOMAIN m}

\* a future that holds no result yet
NoResult == [status |-> "none"]

\* a future that holds the exception its task raised
Raised == [status |-> "raised"]

EmptyMap == <<>>

\* a file that does not exist
Absent == [st |-> "absent", data |-> <<>>]

Sum(f, S) ==
  LET RECURSIVE Acc(_)
      Acc(T) == IF T = {} THEN 0
                ELSE LET e == CHOOSE e \in T : TRUE IN f[e] + Acc(T \ {e})
  IN  Acc(S)

(***************************************************************************)
(* State.                                                                  *)
(***************************************************************************)
VARIABLES
  IPTV_CHECKER_AVAILABLE, \* the import of the probing backend succeeded
  input_file_exists,    \* os.path.exists(input_file)
  sql_urls,             \* the playlist URLs extract_urls_from_sql finds
  run,                  \* which invocation of the program this is
  pc,                   \* where the main thread is
  io,                   \* the file operations the main thread (or the
                        \* signal handler) still has to do before it goes on
  exit,                 \* how the process ended, and its exit code
  REPROCESS_PLAYLISTS,  \* --reprocess-playlists
  MAX_PLAYLIST_WORKERS, \* --workers, first number
  MAX_STREAM_WORKERS,   \* --workers, second number
  playlist_urls,        \* the URLs this run processes
  stream_progress,      \* the stream map (also stream_progress_data)
  processed_playlists,  \* the playlist map (also processed_playlists_data)
  working_streams,      \* the accumulator (also working_streams_data)
  global_stats,
  processed_count,
  playlist_index,
  batch,                \* batch_end, batch_futures and their completion order
  cur,                  \* the playlist the main thread is handling
  wave,                 \* stream_futures and their completion order
  ge_size,              \* size of the stream map when the handler's dump began
  stream_file,          \* stream_check_progress.json
  stream_tmp,           \* stream_check_progress.json.tmp
  playlist_file,        \* playlist_progress.json
  output_file,          \* IPTV.m3u8
  probes,               \* history: backend calls of this run, per stream key
  fetched,              \* history: URLs submitted to the fetcher in this run
  hist,                 \* history: what this run found on disk, how the
                        \* previous run ended, what the handler found,
                        \* whether a backend call of this run has raised
  events,               \* the signals, kills, reprocess requests and
                        \* per-tick saves so far
  call,                 \* a call of one of the pure functions of the
                        \* program: the function, its arguments, its result
  sync                  \* the two locks and where each thread is with
                        \* respect to them

mem == <<pc, io, exit, playlist_urls, stream_progress, processed_playlists,
         working_streams, global_stats, processed_count, playlist_index,
         batch, cur, wave, ge_size>>

conf == <<IPTV_CHECKER_AVAILABLE, input_file_exists, sql_urls, run,
          REPROCESS_PLAYLISTS, MAX_PLAYLIST_WORKERS, MAX_STREAM_WORKERS,
          events, call, sync>>

args == <<IPTV_CHECKER_AVAILABLE, input_file_exists, sql_urls, run,
          REPROCESS_PLAYLISTS, MAX_PLAYLIST_WORKERS, MAX_STREAM_WORKERS, call,
          sync>>

disk == <<stream_file, stream_tmp, playlist_file, output_file>>

history == <<probes, fetched, hist>>

vars == <<mem, conf, disk, history>>

NoBatch == [batch_end |-> 0, futures |-> <<>>, order |-> <<>>, finished |-> {}]

NoCur == [url |-> "", original_count |-> 0, filtered_out_count |-> 0,
          filtered_streams |-> <<>>]

NoWave == [futures |-> <<>>, order |-> <<>>, stream_count |-> 0]

ZeroStats == [total_streams |-> 0, checked |-> 0, working |-> 0,
              failed |-> 0, filtered |-> 0]

Running == [how |-> "running", code |-> -1]

\* the memory of a process that has just started
FreshMemory ==
  /\ pc = "init"
  /\ io = <<>>
  /\ exit = Running
  /\ playlist_urls = sql_urls
  /\ stream_progress = <<>>
  /\ processed_playlists = EmptyMap
  /\ working_streams = <<>>
  /\ global_stats = ZeroStats
  /\ processed_count = 0
  /\ playlist_index = 0
  /\ batch = NoBatch
  /\ cur = NoCur
  /\ wave = NoWave
  /\ ge_size = 0

\* no pure function is under test
NoCall == [fn |-> "none", args |-> <<>>, result |-> <<>>]

\* the threads of stream_executor that the lock protocol is followed for
Probers == {"p1", "p2"}

\* lock and stats_lock are free, no thread is in a `with` block, no signal
\* has arrived
NoSync == [lock |-> "free", stats_lock |-> "free", main |-> <<"loop", "none">>,
           prober |-> [p \in Probers |-> "idle"], signal |-> "none"]

NoHist == [prev_how |-> "none", loaded_urls |-> {}, loaded_keys |-> {},
           output_before |-> Absent, signal_keys |-> {}, signal_urls |-> {},
           raised |-> FALSE]

\* the first invocation, on the dump that holds urls, with --workers wp ws
\* and no progress file
FirstRun(urls, wp, ws) ==
  /\ IPTV_CHECKER_AVAILABLE = TRUE
  /\ input_file_exists = TRUE
  /\ sql_urls = urls
  /\ FreshMemory
  /\ run = 1
  /\ REPROCESS_PLAYLISTS = FALSE
  /\ MAX_PLAYLIST_WORKERS = wp
  /\ MAX_STREAM_WORKERS = ws
  /\ stream_file = Absent
  /\ stream_tmp = Absent
  /\ playlist_file = Absent
  /\ output_file = Absent
  /\ probes = EmptyMap
  /\ fetched = {}
  /\ hist = NoHist
  /\ events = 0
  /\ call = NoCall
  /\ sync = NoSync

Init == FirstRun(InputUrls, 1, 2)

\* the first invocation with one worker in each pool
InitNarrow == FirstRun(InputUrls, 1, 1)

\* the first invocation, with or without the backend, the input file and
\* playlist URLs in it
InitStart ==
  /\ IPTV_CHECKER_AVAILABLE \in BOOLEAN
  /\ input_file_exists \in BOOLEAN
  /\ sql_urls \in {<<>>, InputUrls}
  /\ FreshMemory
  /\ run = 1
  /\ REPROCESS_PLAYLISTS = FALSE
  /\ MAX_PLAYLIST_WORKERS = 1
  /\ MAX_STREAM_WORKERS = 2
  /\ stream_file = Absent
  /\ stream_tmp = Absent
  /\ playlist_file = Absent
  /\ output_file = Absent
  /\ probes = EmptyMap
  /\ fetched = {}
  /\ hist = NoHist
  /\ events = 0
  /\ call = NoCall
  /\ sync = NoSync

\* the first invocation on the second dump
InitExample == FirstRun(ExampleUrls, 1, 2)

(***************************************************************************)
(* Progress store: loading.                                                *)
(***************************************************************************)
REPROCESS_STREAMS == FALSE

\* a file as json.dump / write_m3u_output leaves it when it completes
Written(data) == [st |-> "ok", data |-> data]

\* a file opened with mode 'w' whose content is not yet completely written
Truncated == [st |-> "partial", data |-> <<>>]

\* load_stream_progress(): json.load raises on a truncated file
load_stream_progress ==
  IF stream_file.st = "absent" \/ REPROCESS_STREAMS THEN <<>>
  ELSE IF stream_file.st = "ok" THEN stream_file.data
  ELSE <<>>

\* a faulty loader, which forgets the playlist progress: C7 must notice it
ForgetPlaylistProgress == EmptyMap

\* load_playlist_progress(): json.load raises on a truncated file
load_playlist_progress ==
  IF playlist_file.st = "absent" \/ REPROCESS_PLAYLISTS THEN EmptyMap
  ELSE IF playlist_file.st = "ok" THEN playlist_file.data
  ELSE EmptyMap

\* a faulty URL filter, which keeps every URL: C6 must notice it
KeepAllUrls(urls, processed) == urls

\* [url for url in playlist_urls if url not in processed_playlists]
RemainingUrls(urls, processed) ==
  SelectSeq(urls, LAMBDA u : u \notin DOMAIN processed)

\* the rebuild loop's update of one loaded working result
RebuildResult(r) ==
  LET new_country == TvgCountryOf[r.info.tvg_id]
  IN  IF r.status = "working" /\ r.info.tvg_id # <<>>
         /\ new_country # None /\ new_country # r.country
        THEN [r EXCEPT !.country = new_country]
        ELSE r

\* a faulty exit, which always reports success: C27 must notice it
ExitedZero(how, code) == [how |-> how, code |-> 0]

Exited(how, code) == [how |-> how, code |-> code]

\* the three checks before the progress files are loaded: the reason of
\* the sys.exit(1), or "ok"
Preflight ==
  IF ~IPTV_CHECKER_AVAILABLE THEN "no_backend"
  ELSE IF ~input_file_exists THEN "no_input"
  ELSE IF sql_urls = <<>> THEN "no_urls"
  ELSE "ok"

\* the threads of the process run
Alive == pc \notin {"init", "exited"}

(***************************************************************************)
(* Start of the main program, up to the first batch: load both progress    *)
(* files, drop the URLs already processed, save the stream map, rebuild    *)
(* the accumulator from the loaded working results.                        *)
(***************************************************************************)
Startup ==
  /\ pc = "init"
  /\ IF Preflight # "ok"
       THEN /\ pc' = "exited"
            /\ exit' = Exited(Preflight, 1)
            /\ UNCHANGED <<hist, playlist_urls, processed_playlists,
                           stream_progress, working_streams, stream_file,
                           stream_tmp>>
       ELSE
         LET loaded == load_stream_progress
             playlists == load_playlist_progress
             urls == IF ~REPROCESS_PLAYLISTS /\ playlists # EmptyMap
                       THEN RemainingUrls(sql_urls, playlists)
                       ELSE sql_urls
             rebuilt == [i \in DOMAIN loaded |-> RebuildResult(loaded[i])]
         IN  /\ hist' = [hist EXCEPT
                           !.loaded_urls =
                              IF playlist_file.st = "ok"
                                THEN DOMAIN playlist_file.data ELSE {},
                           !.loaded_keys = Keys(loaded),
                           !.output_before = output_file]
             /\ playlist_urls' = urls
             /\ processed_playlists' = playlists
             /\ IF urls = <<>>
                  THEN /\ pc' = "exited"
                       /\ exit' = Exited("all_processed", 0)
                       /\ stream_progress' = loaded
                       /\ UNCHANGED <<working_streams, stream_file, stream_tmp>>
                  ELSE /\ pc' = "batch_submit"
                       /\ stream_file' = Written(loaded)
                       /\ stream_tmp' = Absent
                       /\ stream_progress' = rebuilt
                       /\ working_streams' =
                            SelectSeq(rebuilt, LAMBDA r : r.status = "working")
                       /\ UNCHANGED exit
  /\ UNCHANGED <<io, global_stats, processed_count, playlist_index, batch,
                 cur, wave, ge_size, conf, playlist_file, output_file,
                 probes, fetched>>

(***************************************************************************)
(* Fetcher stage.                                                          *)
(***************************************************************************)
\* a faulty bound, which takes the whole rest of the list: C14 must notice it
WholeRest(a, b) == b

\* min(a, b)
Min(a, b) == IF a <= b THEN a ELSE b

\* the batch loop's head: submit the next 2 * MAX_PLAYLIST_WORKERS URLs
SubmitBatch ==
  /\ pc = "batch_submit"
  /\ LET playlist_batch_size == MAX_PLAYLIST_WORKERS * 2
         batch_end == Min(playlist_index + playlist_batch_size, Len(playlist_urls))
     IN  /\ batch' = [batch_end |-> batch_end,
                      futures |-> [i \in 1..(batch_end - playlist_index) |->
                                     [url |-> playlist_urls[playlist_index + i],
                                      st |-> "queued", streams |-> <<>>]],
                      order |-> <<>>, finished |-> {}]
         /\ fetched' = fetched
                \cup {playlist_urls[i] : i \in (playlist_index + 1)..batch_end}
  /\ pc' = "as_completed"
  /\ UNCHANGED <<io, exit, playlist_urls, stream_progress, processed_playlists,
                 working_streams, global_stats, processed_count, playlist_index,
                 cur, wave, ge_size, conf, disk, probes, hist>>

InState(futures, states) == {i \in DOMAIN futures : futures[i].st \in states}

\* a faulty pool, which starts a thread for every task: C15 must notice it
AlwaysFree(futures, busy, max_workers) == TRUE

\* ThreadPoolExecutor(max_workers): a task leaves the queue only when fewer
\* than max_workers tasks of the pool are executing
FreeWorker(futures, busy, max_workers) ==
  Cardinality(InState(futures, busy)) < max_workers

\* a free worker of playlist_executor takes the oldest queued download
FetchStart ==
  /\ Alive
  /\ InState(batch.futures, {"queued"}) # {}
  /\ FreeWorker(batch.futures, {"running"}, MAX_PLAYLIST_WORKERS)
  /\ LET i == CHOOSE i \in InState(batch.futures, {"queued"}) :
                 \A j \in InState(batch.futures, {"queued"}) : i <= j
     IN  batch' = [batch EXCEPT !.futures[i].st = "running"]
  /\ UNCHANGED <<pc, io, exit, playlist_urls, stream_progress,
                 processed_playlists, working_streams, global_stats,
                 processed_count, playlist_index, cur, wave, ge_size, conf,
                 disk, history>>

\* download_playlist_wrapper returns
FetchFinish(i) ==
  /\ Alive
  /\ batch.futures[i].st = "running"
  /\ batch' = [batch EXCEPT
                 !.futures[i].st = "done",
                 !.futures[i].streams = PlaylistBody(batch.futures[i].url),
                 !.order = Append(@, i)]
  /\ UNCHANGED <<pc, io, exit, playlist_urls, stream_progress,
                 processed_playlists, working_streams, global_stats,
                 processed_count, playlist_index, cur, wave, ge_size, conf,
                 disk, history>>

\* the main thread is at `here` with no file operation pending
MainAt(here) == pc = here /\ io = <<>>

\* a faulty as_completed, which takes no download as finished before the
\* call: C32's race must go away with it
NoneFinished(futures) == {}

\* as_completed(fs): `finished = set(f for f in fs if f._state in
\* [CANCELLED_AND_NOTIFIED, FINISHED])`, the downloads that ended before
\* the call
FinishedAtCall(futures) == InState(futures, {"done"})

\* `for future in as_completed(batch_futures.keys())`: the main thread
\* calls as_completed after the last submit
AsCompleted ==
  /\ MainAt("as_completed")
  /\ batch' = [batch EXCEPT !.finished = FinishedAtCall(batch.futures)]
  /\ pc' = "batch_wait"
  /\ UNCHANGED <<io, exit, playlist_urls, stream_progress, processed_playlists,
                 working_streams, global_stats, processed_count, playlist_index,
                 cur, wave, ge_size, conf, disk, history>>

\* the downloads as_completed can yield next: those that had ended before
\* the call, in the iteration order of a set, before the others; the
\* others in the order in which they end
Yieldable(b) ==
  IF b.finished # {} THEN b.finished
  ELSE IF b.order # <<>> THEN {Head(b.order)}
  ELSE {}

\* as_completed(batch_futures) yields the download i; the filter loop runs
ConsumeFetch(i) ==
  /\ MainAt("batch_wait")
  /\ i \in Yieldable(batch)
  /\ LET streams == batch.futures[i].streams
         keep == {j \in DOMAIN streams : ~Filtered[streams[j]]}
         filtered_out_count == Len(streams) - Cardinality(keep)
     IN  /\ cur' = [url |-> batch.futures[i].url,
                    original_count |-> Len(streams),
                    filtered_out_count |-> filtered_out_count,
                    filtered_streams |-> SelectSeqBy(streams, keep)]
         /\ global_stats' = [global_stats EXCEPT !.filtered = @ + filtered_out_count]
         /\ batch' = [batch EXCEPT
                        !.order = SelectSeq(@, LAMBDA j : j # i),
                        !.finished = @ \ {i},
                        !.futures[i].st = "consumed",
                        !.futures[i].streams = <<>>]
  /\ pc' = "m3u_stats"
  /\ UNCHANGED <<io, exit, playlist_urls, stream_progress, processed_playlists,
                 working_streams, processed_count, playlist_index, wave,
                 ge_size, conf, disk, history>>

\* the two file operations of save_playlist_progress
SavePlaylistOps == <<"playlist_open", "playlist_write">>

\* the two file operations of write_m3u_output
WriteOutputOps == <<"output_open", "output_write">>

\* a faulty checkpoint, which leaves the output file alone: C21 must
\* notice it
ProgressOnlyOps(working) == <<"stream_save", "playlist_open", "playlist_write">>

\* a checkpoint: save_stream_progress, save_playlist_progress and, with a
\* working stream in the accumulator, write_m3u_output
CheckpointOps(working) ==
  <<"stream_save">> \o SavePlaylistOps
  \o (IF working # <<>> THEN WriteOutputOps ELSE <<>>)

\* a faulty put, which leaves the map as it was: C16 must notice it
DropRecord(m, url, record) == m

\* processed_playlists[url] = record
PutPlaylist(m, url, record) ==
  [u \in DOMAIN m \cup {url} |-> IF u = url THEN record ELSE m[u]]

\* "Update M3U stats", then the three cases: streams left to check (the
\* wave is submitted), all streams filtered out, empty or timeout
UpdateM3UStats ==
  /\ MainAt("m3u_stats")
  /\ global_stats' = [global_stats EXCEPT !.total_streams = @ + cur.original_count]
  /\ IF cur.filtered_streams # <<>>
       THEN /\ wave' = [futures |-> [t \in DOMAIN cur.filtered_streams |->
                                       [stream |-> cur.filtered_streams[t],
                                        st |-> "queued", result |-> NoResult]],
                        order |-> <<>>, stream_count |-> 0]
            /\ pc' = "wave"
            /\ UNCHANGED <<processed_playlists, processed_count, io>>
       ELSE /\ processed_playlists' =
                 PutPlaylist(processed_playlists, cur.url,
                   IF cur.original_count > 0
                     THEN [status |-> "all_filtered",
                           streams_found |-> cur.original_count,
                           streams_filtered |-> cur.original_count]
                     ELSE [status |-> "invalid", streams_found |-> 0,
                           reason |-> "empty_or_timeout"])
            /\ processed_count' = processed_count + 1
            /\ io' = SavePlaylistOps
            /\ pc' = "playlist_done"
            /\ UNCHANGED wave
  /\ UNCHANGED <<exit, playlist_urls, stream_progress, working_streams,
                 playlist_index, batch, cur, ge_size, conf, disk, history>>

(***************************************************************************)
(* Prober stage: check_stream_worker, in the three steps between which     *)
(* other threads can run.                                                  *)
(***************************************************************************)
\* a faulty count, which ignores the status: C5 must notice it
CountAsFailed(stats, status) ==
  [stats EXCEPT !.checked = @ + 1, !.failed = @ + 1]

\* a faulty count, which forgets the outcome: C17 must notice it
CountOnlyChecked(stats, status) == [stats EXCEPT !.checked = @ + 1]

\* a faulty worker, which counts no check: C38 must notice it
CountNothing(stats, status) == stats

\* global_stats after `checked += 1` and `working += 1` or `failed += 1`
CountChecked(stats, status) ==
  IF status = "working"
    THEN [stats EXCEPT !.checked = @ + 1, !.working = @ + 1]
    ELSE [stats EXCEPT !.checked = @ + 1, !.failed = @ + 1]

\* a faulty future, which as_completed never yields: C28 must notice it
LoseTask(w, t, result) ==
  [w EXCEPT !.futures[t].st = "done", !.futures[t].result = result]

\* the future of task t is finished with `result`
FinishTask(w, t, result) ==
  [w EXCEPT !.futures[t].st = "done", !.futures[t].result = result,
            !.order = Append(@, t)]

\* the result dict check_stream_worker builds when the backend answers
MakeResult(stream, status, checked_at) ==
  IF status = "Alive"
    THEN LET detail == get_detailed_stream_info(stream.url)
         IN  [status |-> "working", url |-> stream.url, info |-> stream.info,
              video_bitrate |-> detail.video_bitrate,
              resolution |-> detail.resolution,
              country |-> CountryOf[stream],
              channel_name |-> stream.info.channel_name,
              checked_at |-> checked_at]
    ELSE [status |-> "failed", url |-> stream.url,
          channel_name |-> stream.info.channel_name, checked_at |-> checked_at]

\* a free worker of stream_executor takes the oldest queued task and runs
\* `with lock: if stream_key in stream_progress: ... return result`
ProbeCheck ==
  /\ Alive
  /\ InState(wave.futures, {"queued"}) # {}
  /\ FreeWorker(wave.futures, {"running", "probed"}, MAX_STREAM_WORKERS)
  /\ LET t == CHOOSE t \in InState(wave.futures, {"queued"}) :
                 \A u \in InState(wave.futures, {"queued"}) : t <= u
         stream_key == StreamKey(wave.futures[t].stream)
     IN  IF HasKey(stream_progress, stream_key)
           THEN LET result == GetKey(stream_progress, stream_key)
                IN  /\ global_stats' = CountChecked(global_stats, result.status)
                    /\ wave' = FinishTask(wave, t, result)
           ELSE /\ wave' = [wave EXCEPT !.futures[t].st = "running"]
                /\ UNCHANGED global_stats
  /\ UNCHANGED <<pc, io, exit, playlist_urls, stream_progress,
                 processed_playlists, working_streams, processed_count,
                 playlist_index, batch, cur, ge_size, conf, disk, history>>

\* probes[key] + 1
CountProbe(p, key) ==
  [k \in DOMAIN p \cup {key} |->
     IF k = key THEN (IF key \in DOMAIN p THEN p[key] ELSE 0) + 1 ELSE p[k]]

\* check_channel_status(...) is called and answers or raises; the result
\* is built and counted
ProbeBackend(t, outcome) ==
  /\ Alive
  /\ wave.futures[t].st = "running"
  /\ LET stream == wave.futures[t].stream
         called == CountProbe(probes, StreamKey(stream))
         result == MakeResult(stream, outcome, <<run, called[StreamKey(stream)]>>)
     IN  /\ probes' = called
         /\ hist' = [hist EXCEPT !.raised = @ \/ outcome = "Raise"]
         /\ IF outcome = "Raise"
              THEN /\ wave' = FinishTask(wave, t, Raised)
                   /\ UNCHANGED global_stats
              ELSE /\ wave' = [wave EXCEPT !.futures[t].st = "probed",
                                           !.futures[t].result = result]
                   /\ global_stats' = CountChecked(global_stats, result.status)
  /\ UNCHANGED <<pc, io, exit, playlist_urls, stream_progress,
                 processed_playlists, working_streams, processed_count,
                 playlist_index, batch, cur, ge_size, conf, disk, fetched>>

\* `with lock: stream_progress[stream_key] = result`, and the return
ProbeStore(t) ==
  /\ Alive
  /\ wave.futures[t].st = "probed"
  /\ stream_progress' = PutKey(stream_progress, wave.futures[t].result)
  /\ wave' = FinishTask(wave, t, wave.futures[t].result)
  /\ UNCHANGED <<pc, io, exit, playlist_urls, processed_playlists,
                 working_streams, global_stats, processed_count,
                 playlist_index, batch, cur, ge_size, conf, disk, history>>

(***************************************************************************)
(* The main thread drains the wave.                                        *)
(***************************************************************************)
\* as_completed(stream_futures) yields a finished check; `tick` says
\* whether SAVE_INTERVAL seconds have passed since the last save
ConsumeProbe(tick) ==
  /\ MainAt("wave")
  /\ wave.order # <<>>
  /\ tick => events < MaxEvents
  /\ events' = IF tick THEN events + 1 ELSE events
  /\ LET result == wave.futures[Head(wave.order)].result
         working == IF result.status = "working"
                      THEN Append(working_streams, result)
                      ELSE working_streams
     IN  /\ working_streams' = working
         /\ io' = IF tick THEN CheckpointOps(working) ELSE <<>>
  /\ wave' = [wave EXCEPT !.order = Tail(@), !.stream_count = @ + 1]
  /\ UNCHANGED <<pc, exit, playlist_urls, stream_progress, processed_playlists,
                 global_stats, processed_count, playlist_index, batch, cur,
                 ge_size, args, disk, history>>

\* stream URLs and playlist URLs are opaque here; the pairs (s, p) with p
\* a proper prefix of s
ProperPrefixes == {}

\* s.startswith(p) for URLs
UrlStartsWith(s, p) == s = p \/ <<s, p>> \in ProperPrefixes

\* url[:30]: the URLs of the model are shorter than 30 characters
First30(url) == url

\* a faulty end of the drain loop, which stops at the first check consumed:
\* C13 must notice it
DrainedEarly(w) == w.stream_count >= 1

\* `for sf in as_completed(stream_futures.keys())` is exhausted: every
\* future of the wave has been yielded
WaveDrained(w) == w.stream_count = Len(w.futures)

\* the code after the wave (or after the all-filtered and empty cases):
\* count, mark the playlist completed, checkpoint
CompletePlaylist ==
  /\ \/ MainAt("wave") /\ WaveDrained(wave)
     \/ MainAt("playlist_done")
  /\ processed_count' = processed_count + 1
  /\ LET working_from_playlist ==
           Cardinality({i \in DOMAIN working_streams :
                          UrlStartsWith(working_streams[i].url, First30(cur.url))})
     IN  processed_playlists' =
           PutPlaylist(processed_playlists, cur.url,
             [status |-> "completed",
              streams_found |-> cur.original_count,
              streams_filtered |-> cur.filtered_out_count,
              streams_checked |-> Len(cur.filtered_streams),
              working_streams |-> working_from_playlist,
              url |-> cur.url])
  /\ io' = CheckpointOps(working_streams)
  /\ pc' = "batch_wait"
  /\ wave' = NoWave
  /\ cur' = NoCur
  /\ UNCHANGED <<exit, playlist_urls, stream_progress, working_streams,
                 global_stats, playlist_index, batch, ge_size, conf, disk,
                 history>>

\* every download of the batch is consumed: the next batch, or the end
NextBatch ==
  /\ MainAt("batch_wait")
  /\ InState(batch.futures, {"consumed"}) = DOMAIN batch.futures
  /\ playlist_index' = batch.batch_end
  /\ pc' = IF batch.batch_end < Len(playlist_urls) THEN "batch_submit" ELSE "final"
  /\ batch' = NoBatch
  /\ UNCHANGED <<io, exit, playlist_urls, stream_progress, processed_playlists,
                 working_streams, global_stats, processed_count, cur, wave,
                 ge_size, conf, disk, history>>

\* "Saving final progress..."
FinalSave ==
  /\ MainAt("final")
  /\ io' = <<"stream_save">> \o SavePlaylistOps
  /\ pc' = "final_saved"
  /\ UNCHANGED <<exit, playlist_urls, stream_progress, processed_playlists,
                 working_streams, global_stats, processed_count,
                 playlist_index, batch, cur, wave, ge_size, conf, disk, history>>

\* `if not working_streams: sys.exit(1)`, else organize and write
FinalOutput ==
  /\ MainAt("final_saved")
  /\ IF working_streams = <<>>
       THEN /\ pc' = "exited"
            /\ exit' = Exited("no_working", 1)
            /\ UNCHANGED io
       ELSE /\ pc' = "finishing"
            /\ io' = WriteOutputOps
            /\ UNCHANGED exit
  /\ UNCHANGED <<playlist_urls, stream_progress, processed_playlists,
                 working_streams, global_stats, processed_count,
                 playlist_index, batch, cur, wave, ge_size, conf, disk, history>>

\* the end of the script
Finish ==
  /\ MainAt("finishing")
  /\ pc' = "exited"
  /\ exit' = Exited("complete", 0)
  /\ UNCHANGED <<io, playlist_urls, stream_progress, processed_playlists,
                 working_streams, global_stats, processed_count,
                 playlist_index, batch, cur, wave, ge_size, conf, disk, history>>

(***************************************************************************)
(* File operations of a checkpoint, one step each.  A file opened with     *)
(* mode 'w' is truncated at once and complete only when the write ends.    *)
(***************************************************************************)
Doing(op) == Alive /\ io # <<>> /\ Head(io) = op

\* save_stream_progress(data): under the lock, dump to <path>.tmp, then
\* os.replace over <path>
SaveStreamProgress ==
  /\ Doing("stream_save")
  /\ stream_file' = Written(stream_progress)
  /\ stream_tmp' = Absent
  /\ io' = Tail(io)
  /\ UNCHANGED <<pc, exit, playlist_urls, stream_progress, processed_playlists,
                 working_streams, global_stats, processed_count,
                 playlist_index, batch, cur, wave, ge_size, conf,
                 playlist_file, output_file, history>>

\* a faulty handler of a failed save, which leaves the temp file where it
\* is: C29 must notice it
KeepTemp(file) == file

\* `if os.path.exists(temp_file): os.remove(temp_file)`
RemoveTemp(file) == Absent

\* the calls of save_stream_progress that can raise
SaveSteps == {"open", "dump", "replace"}

\* save_stream_progress(data): the call `step` raises.  A failed open
\* leaves the temp file as an earlier run left it, a later failure leaves
\* the one this save has opened; the handler removes it and the function
\* returns
SaveStreamProgressFails(step) ==
  /\ Doing("stream_save")
  /\ events < MaxEvents
  /\ events' = events + 1
  /\ stream_tmp' = RemoveTemp(IF step = "open" THEN stream_tmp ELSE Truncated)
  /\ io' = Tail(io)
  /\ UNCHANGED <<pc, exit, playlist_urls, stream_progress, processed_playlists,
                 working_streams, global_stats, processed_count,
                 playlist_index, batch, cur, wave, ge_size, args,
                 stream_file, playlist_file, output_file, history>>

\* save_playlist_progress: open(playlist_progress_file, 'w')
OpenPlaylistFile ==
  /\ Doing("playlist_open")
  /\ playlist_file' = Truncated
  /\ io' = Tail(io)
  /\ UNCHANGED <<pc, exit, playlist_urls, stream_progress, processed_playlists,
                 working_streams, global_stats, processed_count,
                 playlist_index, batch, cur, wave, ge_size, conf,
                 stream_file, stream_tmp, output_file, history>>

\* save_playlist_progress: json.dump completes and the file is closed
WritePlaylistFile ==
  /\ Doing("playlist_write")
  /\ playlist_file' = Written(processed_playlists)
  /\ io' = Tail(io)
  /\ UNCHANGED <<pc, exit, playlist_urls, stream_progress, processed_playlists,
                 working_streams, global_stats, processed_count,
                 playlist_index, batch, cur, wave, ge_size, conf,
                 stream_file, stream_tmp, output_file, history>>

\* write_m3u_output: open(output_file, 'w')
OpenOutputFile ==
  /\ Doing("output_open")
  /\ output_file' = Truncated
  /\ io' = Tail(io)
  /\ UNCHANGED <<pc, exit, playlist_urls, stream_progress, processed_playlists,
                 working_streams, global_stats, processed_count,
                 playlist_index, batch, cur, wave, ge_size, conf,
                 stream_file, stream_tmp, playlist_file, history>>

\* write_m3u_output: every entry is written and the file is closed
WriteOutputFile ==
  /\ Doing("output_write")
  /\ output_file' = Written(write_m3u_output(
                       organize_streams_by_country_and_bitrate(working_streams)))
  /\ io' = Tail(io)
  /\ UNCHANGED <<pc, exit, playlist_urls, stream_progress, processed_playlists,
                 working_streams, global_stats, processed_count,
                 playlist_index, batch, cur, wave, ge_size, conf,
                 stream_file, stream_tmp, playlist_file, history>>

(***************************************************************************)
(* graceful_exit: the handler of SIGINT and SIGTERM.  It runs in the main  *)
(* thread, which does nothing else from then on; the pool threads go on.   *)
(***************************************************************************)
\* what graceful_exit does, given what the three globals hold
GracefulExitOps ==
  (IF stream_progress # <<>> THEN <<"dump_begin", "dump_end">> ELSE <<>>)
  \o (IF processed_playlists # EmptyMap THEN SavePlaylistOps ELSE <<>>)
  \o (IF working_streams # <<>> THEN WriteOutputOps ELSE <<>>)

\* the signal is delivered
Signal ==
  /\ Alive
  /\ pc # "graceful_exit"
  /\ events < MaxEvents
  /\ events' = events + 1
  /\ pc' = "graceful_exit"
  /\ io' = GracefulExitOps
  /\ hist' = [hist EXCEPT !.signal_keys = Keys(stream_progress),
                          !.signal_urls = DOMAIN processed_playlists]
  /\ UNCHANGED <<exit, playlist_urls, stream_progress, processed_playlists,
                 working_streams, global_stats, processed_count,
                 playlist_index, batch, cur, wave, ge_size, args, disk,
                 probes, fetched>>

\* json.dump(stream_progress_data, f) starts to walk the dict, without the lock
DumpBegin ==
  /\ Doing("dump_begin")
  /\ ge_size' = Len(stream_progress)
  /\ stream_tmp' = Truncated
  /\ io' = Tail(io)
  /\ UNCHANGED <<pc, exit, playlist_urls, stream_progress, processed_playlists,
                 working_streams, global_stats, processed_count,
                 playlist_index, batch, cur, wave, conf,
                 stream_file, playlist_file, output_file, history>>

\* the walk ends: if a prober has added a key meanwhile, the iteration
\* raises RuntimeError (the dict changed size), the temp file is removed
\* and the stream file stays as it was; else os.replace.  The keys written
\* are those of the map; a value a prober has replaced meanwhile is written
\* as the map holds it when the walk ends.
DumpEnd ==
  /\ Doing("dump_end")
  /\ stream_file' = IF Len(stream_progress) = ge_size
                      THEN Written(stream_progress) ELSE stream_file
  /\ stream_tmp' = Absent
  /\ io' = Tail(io)
  /\ UNCHANGED <<pc, exit, playlist_urls, stream_progress, processed_playlists,
                 working_streams, global_stats, processed_count,
                 playlist_index, batch, cur, wave, ge_size, conf,
                 playlist_file, output_file, history>>

\* os._exit(0)
GracefulExitDone ==
  /\ MainAt("graceful_exit")
  /\ pc' = "exited"
  /\ exit' = Exited("interrupt", 0)
  /\ UNCHANGED <<io, playlist_urls, stream_progress, processed_playlists,
                 working_streams, global_stats, processed_count,
                 playlist_index, batch, cur, wave, ge_size, conf, disk, history>>

(***************************************************************************)
(* The environment: SIGKILL, and the next invocation of the program on     *)
(* the same files.                                                         *)
(***************************************************************************)
\* the process is killed: its memory is gone, the files stay as they are
Kill ==
  /\ Alive
  /\ events < MaxEvents
  /\ events' = events + 1
  /\ pc' = "exited"
  /\ exit' = Exited("killed", 137)
  /\ io' = <<>>
  /\ playlist_urls' = sql_urls
  /\ stream_progress' = <<>>
  /\ processed_playlists' = EmptyMap
  /\ working_streams' = <<>>
  /\ global_stats' = ZeroStats
  /\ processed_count' = 0
  /\ playlist_index' = 0
  /\ batch' = NoBatch
  /\ cur' = NoCur
  /\ wave' = NoWave
  /\ ge_size' = 0
  /\ probes' = EmptyMap
  /\ fetched' = {}
  /\ UNCHANGED <<args, disk, hist>>

\* the program is started again
Restart(reprocess) ==
  /\ pc = "exited"
  /\ run < MaxRuns
  /\ reprocess => events < MaxEvents
  /\ events' = IF reprocess THEN events + 1 ELSE events
  /\ run' = run + 1
  /\ REPROCESS_PLAYLISTS' = reprocess
  /\ pc' = "init"
  /\ io' = <<>>
  /\ exit' = Running
  /\ playlist_urls' = sql_urls
  /\ stream_progress' = <<>>
  /\ processed_playlists' = EmptyMap
  /\ working_streams' = <<>>
  /\ global_stats' = ZeroStats
  /\ processed_count' = 0
  /\ playlist_index' = 0
  /\ batch' = NoBatch
  /\ cur' = NoCur
  /\ wave' = NoWave
  /\ ge_size' = 0
  /\ probes' = EmptyMap
  /\ fetched' = {}
  /\ hist' = [NoHist EXCEPT !.prev_how = exit.how]
  /\ UNCHANGED <<IPTV_CHECKER_AVAILABLE, input_file_exists, sql_urls,
                 MAX_PLAYLIST_WORKERS, MAX_STREAM_WORKERS, disk, call,
                 sync>>

Next ==
  \/ Startup
  \/ SubmitBatch
  \/ FetchStart
  \/ \E i \in DOMAIN batch.futures : FetchFinish(i)
  \/ AsCompleted
  \/ \E i \in DOMAIN batch.futures : ConsumeFetch(i)
  \/ UpdateM3UStats
  \/ ProbeCheck
  \/ \E t \in DOMAIN wave.futures : \E outcome \in BackendOutcomes :
        ProbeBackend(t, outcome)
  \/ \E t \in DOMAIN wave.futures : ProbeStore(t)
  \/ \E tick \in BOOLEAN : ConsumeProbe(tick)
  \/ CompletePlaylist
  \/ NextBatch
  \/ FinalSave
  \/ FinalOutput
  \/ Finish
  \/ SaveStreamProgress
  \/ OpenPlaylistFile
  \/ WritePlaylistFile
  \/ OpenOutputFile
  \/ WriteOutputFile
  \/ Signal
  \/ DumpBegin
  \/ DumpEnd
  \/ GracefulExitDone
  \/ Kill
  \/ \E reprocess \in BOOLEAN : Restart(reprocess)

Spec == Init /\ [][Next]_vars

\* the program on a file system on which a save of the stream progress
\* can fail
NextFaulty ==
  \/ Next
  \/ \E step \in SaveSteps : SaveStreamProgressFails(step)

SpecFaulty == Init /\ [][NextFaulty]_vars

\* the program on the second dump
SpecExample == InitExample /\ [][Next]_vars

\* the program with --workers 1 1: fewer workers than tasks in both pools
SpecNarrow == InitNarrow /\ [][Next]_vars

\* the program from its first check on
SpecStart == InitStart /\ [][Next]_vars

\* the steps of one run that no signal interrupts, but the last step of
\* write_m3u_output
RunSteps ==
  \/ Startup
  \/ SubmitBatch
  \/ FetchStart
  \/ \E i \in DOMAIN batch.futures : FetchFinish(i)
  \/ AsCompleted
  \/ \E i \in DOMAIN batch.futures : ConsumeFetch(i)
  \/ UpdateM3UStats
  \/ ProbeCheck
  \/ \E t \in DOMAIN wave.futures : \E outcome \in BackendOutcomes :
        ProbeBackend(t, outcome)
  \/ \E t \in DOMAIN wave.futures : ProbeStore(t)
  \/ \E tick \in BOOLEAN : ConsumeProbe(tick)
  \/ CompletePlaylist
  \/ NextBatch
  \/ FinalSave
  \/ FinalOutput
  \/ Finish
  \/ SaveStreamProgress
  \/ OpenPlaylistFile
  \/ WritePlaylistFile
  \/ OpenOutputFile

\* the steps of one run that no signal interrupts
NextRun == RunSteps \/ WriteOutputFile

\* the threads are scheduled: a step of the run that stays possible is
\* eventually taken, so a fetch or a probe that has started returns or
\* raises, and the write of the output file, possible exactly when it is
\* the operation in progress, ends
FairRun ==
  /\ WF_vars(RunSteps)
  /\ ([]<>(~Doing("output_write")) \/ []<><<WriteOutputFile>>_vars)

\* one run without signals
SpecRun == Init /\ [][NextRun]_vars /\ FairRun

(***************************************************************************)
(* The pure functions of the program, each called on every argument of a   *)
(* bounded set.  The program itself does not run here.                     *)
(***************************************************************************)
\* longest content, in lines
MaxLines == 4

\* the lines a downloaded content is made of: two #EXTINF lines, two URLs,
\* an empty line, a blank line, a comment
ContentLines ==
  { <<"#","E","X","T","I","N","F",":","-","1",",","A">>,
    <<"#","E","X","T","I","N","F",":","-","1"," ","t","v","g","-","i","d","=",
      "\"","b",".","u","k","\"",",","B">>,
    <<"h","t","t","p",":","/","/","a">>,
    <<"h","t","t","p",":","/","/","b">>,
    <<>>,
    <<" ">>,
    <<"#","c">> }

\* every content of at most MaxLines lines
Contents == UNION {[1..n -> ContentLines] : n \in 0..MaxLines}

InitPure == FirstRun(InputUrls, 1, 2)

\* the parser is called on the lines of a content
CallParser ==
  /\ call = NoCall
  /\ \E lines \in Contents :
        call' = [fn |-> "download_and_parse_playlist", args |-> lines,
                 result |-> download_and_parse_playlist(lines)]
  /\ UNCHANGED <<mem, IPTV_CHECKER_AVAILABLE, input_file_exists, sql_urls, run,
                 REPROCESS_PLAYLISTS, MAX_PLAYLIST_WORKERS, MAX_STREAM_WORKERS,
                 events, disk, history, sync>>

\* the ChannelInfos the resolver is called on: tvg_ids with and without a
\* known TLD or prefix, group titles and channel names with and without
\* keywords, short codes alone and inside longer words
ChannelInfos ==
  [tvg_id : { <<>>, <<"C","N","N",".","u","s">>, <<"x",".","z","z">>,
              <<"b","r","#","x">>, <<"u","k","-","a",".","d","e">>,
              <<"a",".","b",".","F","R">>, <<"z","z","_","a">>,
              <<"I","T","_","x",".","t","v">>, <<"u","s","a">> },
   group_title : { <<>>, <<"N","e","w","s">>, <<"U","S","A">>,
                   <<"U","S"," ","S","p","o","r","t","s">>, <<"a","r">>,
                   <<"U","K"," ","T","V">>,
                   <<"S","p","o","r","t","s"," ","F","R">>,
                   <<"U","n","i","t","e","d"," ","K","i","n","g","d","o","m">> },
   channel_name : { <<"C","N","N">>, <<"P","A","R","A","M","O","U","N","T">>,
                    <<"F","r","e","e","f","o","r","m">>, <<"T","V"," ","A","R">>,
                    <<"C","a","n","a","l"," ","B","r","a","s","i","l">>,
                    <<"I","N","T">> }]

\* the country resolver of check_stream_worker is called on a ChannelInfo
CallResolver ==
  /\ call = NoCall
  /\ \E info \in ChannelInfos :
        call' = [fn |-> "ResolveCountry", args |-> info,
                 result |-> ResolveCountry(info)]
  /\ UNCHANGED <<mem, IPTV_CHECKER_AVAILABLE, input_file_exists, sql_urls, run,
                 REPROCESS_PLAYLISTS, MAX_PLAYLIST_WORKERS, MAX_STREAM_WORKERS,
                 events, disk, history, sync>>

\* channel names and group titles with and without keywords of the adult
\* family, as tokens of their own and inside longer tokens
FilterNames ==
  { <<"+","1","8">>, <<"1","8","+">>, <<"X","X","X">>,
    <<"H","o","t"," ","1","8","+">>, <<"T","V"," ","+","1","8"," ","H","D">>,
    <<"A","d","u","l","t"," ","T","V">>, <<"a","+","1","8">>, N_CNN }

FilterGroups == { G_NEWS, <<"1","8","+">>, <<"P","o","r","n">> }

\* the filter loop calls should_filter_stream on a name and a group title
CallFilter ==
  /\ call = NoCall
  /\ \E name \in FilterNames : \E group \in FilterGroups :
        call' = [fn |-> "should_filter_stream", args |-> <<name, group>>,
                 result |-> should_filter_stream(name, group)]
  /\ UNCHANGED <<mem, IPTV_CHECKER_AVAILABLE, input_file_exists, sql_urls, run,
                 REPROCESS_PLAYLISTS, MAX_PLAYLIST_WORKERS, MAX_STREAM_WORKERS,
                 events, disk, history, sync>>

NextPure ==
  \/ CallParser
  \/ CallResolver
  \/ CallFilter

SpecPure == InitPure /\ [][NextPure]_vars

(***************************************************************************)
(* The lock protocol: each `with lock:` and `with stats_lock:` block of    *)
(* the main thread and of check_stream_worker, as an acquire and a release *)
(* with the thread inside the block in between, and the signal handler,    *)
(* which runs in the main thread wherever the signal finds it.             *)
(***************************************************************************)
\* the program outside the locks stays as it is
LockFrame ==
  UNCHANGED <<mem, IPTV_CHECKER_AVAILABLE, input_file_exists, sql_urls, run,
              REPROCESS_PLAYLISTS, MAX_PLAYLIST_WORKERS, MAX_STREAM_WORKERS,
              events, call, disk, history>>

\* threading.Lock.acquire(): the lock is free and thread t takes it
Acquire(l, t) == sync[l] = "free"

\* the process runs: os._exit has not been called
NotExited == sync.signal # "exited"

\* the main thread comes to a `with l:` block: `with stats_lock:` in the
\* stats updates of the main loop and in update_dual_progress, `with lock:`
\* in save_stream_progress
MainWants(l) ==
  /\ sync.signal = "none" /\ sync.main = <<"loop", "none">>
  /\ sync' = [sync EXCEPT !.main = <<"want", l>>]
  /\ LockFrame

MainTakes(l) ==
  /\ sync.signal = "none" /\ sync.main = <<"want", l>>
  /\ Acquire(l, "main")
  /\ sync' = [sync EXCEPT ![l] = "main", !.main = <<"in", l>>]
  /\ LockFrame

\* the block ends
MainLeaves(l) ==
  /\ sync.signal = "none" /\ sync.main = <<"in", l>>
  /\ sync' = [sync EXCEPT ![l] = "free", !.main = <<"loop", "none">>]
  /\ LockFrame

\* the checks are done and the main thread leaves the executors
MainEnds ==
  /\ sync.signal = "none" /\ sync.main = <<"loop", "none">>
  /\ \A p \in Probers : sync.prober[p] = "done"
  /\ sync' = [sync EXCEPT !.main = <<"end", "none">>]
  /\ LockFrame

\* a thread of stream_executor starts check_stream_worker
ProberStarts(p) ==
  /\ NotExited /\ sync.prober[p] = "idle" /\ sync.main # <<"end", "none">>
  /\ sync' = [sync EXCEPT !.prober[p] = "want_lock_check"]
  /\ LockFrame

\* `with lock:` is entered: the membership test, the store of the result
ProberTakesLock(p) ==
  /\ NotExited
  /\ sync.prober[p] \in {"want_lock_check", "want_lock_store"}
  /\ Acquire("lock", p)
  /\ sync' = [sync EXCEPT
                !.lock = p,
                !.prober[p] = IF @ = "want_lock_check" THEN "in_check"
                                                       ELSE "in_store"]
  /\ LockFrame

\* `if stream_key in stream_progress`: the key is there and the worker
\* goes for stats_lock inside the block, or it is not and the block ends
ProberChecks(p, memoized) ==
  /\ NotExited /\ sync.prober[p] = "in_check"
  /\ sync' = IF memoized
               THEN [sync EXCEPT !.prober[p] = "want_stats_memo"]
               ELSE [sync EXCEPT !.lock = "free", !.prober[p] = "want_stats_cur"]
  /\ LockFrame

\* a `with stats_lock:` block of the worker is entered: the counting of a
\* memoized result (inside `with lock:`), the display update before the
\* backend call, the counting after it
ProberTakesStats(p) ==
  /\ NotExited
  /\ sync.prober[p] \in {"want_stats_memo", "want_stats_cur", "want_stats_res"}
  /\ Acquire("stats_lock", p)
  /\ sync' = [sync EXCEPT
                !.stats_lock = p,
                !.prober[p] = CASE @ = "want_stats_memo" -> "in_stats_memo"
                                [] @ = "want_stats_cur" -> "in_stats_cur"
                                [] OTHER -> "in_stats_res"]
  /\ LockFrame

\* the `with stats_lock:` block ends
ProberLeavesStats(p) ==
  /\ NotExited
  /\ sync.prober[p] \in {"in_stats_memo", "in_stats_cur", "in_stats_res"}
  /\ sync' = [sync EXCEPT
                !.stats_lock = "free",
                !.prober[p] = CASE @ = "in_stats_memo" -> "memo_return"
                                [] @ = "in_stats_cur" -> "backend"
                                [] OTHER -> "want_lock_store"]
  /\ LockFrame

\* `with lock:` is left and the worker returns: `return result` of a
\* memoized result, or the end of `stream_progress[stream_key] = result`
ProberLeavesLock(p) ==
  /\ NotExited /\ sync.prober[p] \in {"memo_return", "in_store"}
  /\ sync' = [sync EXCEPT !.lock = "free", !.prober[p] = "done"]
  /\ LockFrame

\* check_channel_status returns, or raises and the worker ends
ProberBackend(p, raises) ==
  /\ NotExited /\ sync.prober[p] = "backend"
  /\ sync' = [sync EXCEPT !.prober[p] =
                IF raises THEN "done" ELSE "want_stats_res"]
  /\ LockFrame

\* SIGINT or SIGTERM: graceful_exit starts in the main thread, which stays
\* where it is, with the locks it holds
SignalArrives ==
  /\ sync.signal = "none" /\ sync.main # <<"end", "none">>
  /\ sync' = [sync EXCEPT !.signal = "save_streams"]
  /\ LockFrame

\* a faulty handler, which saves the stream map through the store lock as
\* save_stream_progress does: C37 must notice it
HandlerTakesStoreLock(step) == IF step = "save_streams" THEN {"lock"} ELSE {}

\* the locks graceful_exit takes at a step: none ("Save directly without
\* using the lock to avoid deadlock")
HandlerLocks(step) == {}

\* graceful_exit goes on: the stream map, the playlist map, the output
\* file, os._exit(0)
HandlerStep ==
  /\ sync.signal \in {"save_streams", "save_playlists", "write_output"}
  /\ \A l \in HandlerLocks(sync.signal) : Acquire(l, "main")
  /\ sync' = [sync EXCEPT !.signal =
                CASE @ = "save_streams" -> "save_playlists"
                  [] @ = "save_playlists" -> "write_output"
                  [] OTHER -> "exited"]
  /\ LockFrame

NextLocks ==
  \/ \E l \in {"lock", "stats_lock"} : MainWants(l)
  \/ \E l \in {"lock", "stats_lock"} : MainTakes(l)
  \/ \E l \in {"lock", "stats_lock"} : MainLeaves(l)
  \/ MainEnds
  \/ \E p \in Probers : ProberStarts(p)
  \/ \E p \in Probers : ProberTakesLock(p)
  \/ \E p \in Probers : \E memoized \in BOOLEAN : ProberChecks(p, memoized)
  \/ \E p \in Probers : ProberTakesStats(p)
  \/ \E p \in Probers : ProberLeavesStats(p)
  \/ \E p \in Probers : ProberLeavesLock(p)
  \/ \E p \in Probers : \E raises \in BOOLEAN : ProberBackend(p, raises)
  \/ SignalArrives
  \/ HandlerStep

\* the threads and the two locks
SpecLocks == Init /\ [][NextLocks]_vars

(***************************************************************************)
(* The claims.                                                             *)
(***************************************************************************)
\* the backend calls of this run, over all keys
TotalProbes == Sum(probes, DOMAIN probes)

\* the keys a persisted stream file holds
PersistedKeys == IF stream_file.st = "ok" THEN Keys(stream_file.data) ELSE {}

\* the URLs a persisted playlist file holds
PersistedUrls == IF playlist_file.st = "ok" THEN DOMAIN playlist_file.data ELSE {}

\* the run went to its end: no signal, no kill
EndedClean == pc = "exited" /\ exit.how \in {"complete", "no_working"}

\* the keys of the entries of playlist url that pass the filter
UnfilteredKeys(url) ==
  {StreamKey(PlaylistBody(url)[j]) :
     j \in {j \in DOMAIN PlaylistBody(url) : ~Filtered[PlaylistBody(url)[j]]}}

\* playlist url has entries, and the filter excludes every one
AllFilteredBody(url) ==
  /\ PlaylistBody(url) # <<>>
  /\ \A j \in DOMAIN PlaylistBody(url) : Filtered[PlaylistBody(url)[j]]

\* C1: within a run the backend is called at most once for every stream
\* key, whatever the interleaving of the probers and however often the key
\* is listed.
C1_AtMostOneProbePerKey == \A k \in DOMAIN probes : probes[k] <= 1

\* C2: when the backend has raised on the one call made for a stream's key,
\* the stream map holds a failed result under that key and the probe has
\* been counted as failed.
C2_RaisedStoredAsFailed ==
  \A t \in DOMAIN wave.futures :
     (/\ wave.futures[t].result = Raised
      /\ probes[StreamKey(wave.futures[t].stream)] = 1)
     => /\ HasKey(stream_progress, StreamKey(wave.futures[t].stream))
        /\ GetKey(stream_progress, StreamKey(wave.futures[t].stream)).status
             = "failed"
        /\ global_stats.failed >= 1

\* C3: a written output playlist has at most one entry per working stream
\* (a stream of the world is identified by its URL).
C3_OutputDeduplicated ==
  output_file.st = "ok" =>
    \A i, j \in DOMAIN output_file.data :
       output_file.data[i].url = output_file.data[j].url => i = j

\* C4: after a kill at any point, each persisted file is complete: none is
\* truncated or partially written.
C4_NoPartialFileAfterKill ==
  exit.how = "killed" =>
    /\ stream_file.st # "partial"
    /\ playlist_file.st # "partial"
    /\ output_file.st # "partial"

\* C5: a worker that takes a task whose key is in the stream map returns
\* the stored result, calls no backend, leaves the map as it is, and counts
\* checked + 1 and exactly one of working + 1, failed + 1 by the stored status.
C5_MemoizedPath ==
  [][\A t \in DOMAIN wave.futures :
       (/\ t \in DOMAIN wave'.futures
        /\ wave.futures[t].st = "queued"
        /\ wave'.futures[t].st # "queued"
        /\ HasKey(stream_progress, StreamKey(wave.futures[t].stream)))
       => LET stored == GetKey(stream_progress,
                               StreamKey(wave.futures[t].stream))
          IN  /\ wave'.futures[t].st = "done"
              /\ wave'.futures[t].result = stored
              /\ probes' = probes
              /\ stream_progress' = stream_progress
              /\ global_stats'.checked = global_stats.checked + 1
              /\ IF stored.status = "working"
                   THEN /\ global_stats'.working = global_stats.working + 1
                        /\ global_stats'.failed = global_stats.failed
                   ELSE /\ global_stats'.failed = global_stats.failed + 1
                        /\ global_stats'.working = global_stats.working]_vars

\* a task is done with a stored result although the backend was not called
\* for its key in this run: the worker took the memoized path
C5_Witness ==
  \E t \in DOMAIN wave.futures :
     /\ wave.futures[t].st = "done"
     /\ wave.futures[t].result.status \in {"working", "failed"}
     /\ StreamKey(wave.futures[t].stream) \notin DOMAIN probes
     /\ global_stats.checked >= 1

\* C6: without --reprocess-playlists, no URL that has a record in the
\* playlist progress file this run loaded is submitted to the fetcher.
C6_LoadedUrlsNotFetched ==
  ~REPROCESS_PLAYLISTS => fetched \cap hist.loaded_urls = {}

\* a run that loaded records fetches other URLs
C6_Witness ==
  /\ ~REPROCESS_PLAYLISTS
  /\ hist.loaded_urls # {}
  /\ fetched # {}

\* C7: a run without --reprocess-playlists that follows a run which went to
\* its end fetches nothing, probes nothing and leaves the output playlist as
\* the first run left it.
C7_SecondRunIdle ==
  (hist.prev_how \in {"complete", "no_working"} /\ ~REPROCESS_PLAYLISTS)
  => /\ fetched = {}
     /\ probes = EmptyMap
     /\ pc # "init" => output_file = hist.output_before

\* the second run has ended, the first one had written an output playlist
C7_Witness ==
  /\ hist.prev_how = "complete"
  /\ ~REPROCESS_PLAYLISTS
  /\ pc = "exited"
  /\ exit = Exited("all_processed", 0)
  /\ output_file.st = "ok"
  /\ output_file.data # <<>>

\* C8: a run that follows an interrupted one and goes to its end has fetched
\* exactly the URLs the persisted playlist map did not hold, and has called
\* the backend once for each distinct unfiltered key of those playlists
\* that the persisted stream map did not hold.
C8_ResumeFetchesAndProbes ==
  (hist.prev_how = "interrupt" /\ ~REPROCESS_PLAYLISTS /\ EndedClean)
  => /\ fetched = Range(sql_urls) \ hist.loaded_urls
     /\ TotalProbes =
          Cardinality(UNION {UnfilteredKeys(u) : u \in fetched}
                      \ hist.loaded_keys)

\* C9: when the handler has run and the process has exited, the exit code
\* is 0 and the persisted stream map and playlist map hold every key the
\* maps in memory held when the handler started.
C9_HandlerFlushesEverything ==
  (pc = "exited" /\ exit.how = "interrupt")
  => /\ exit.code = 0
     /\ hist.signal_keys \subseteq PersistedKeys
     /\ hist.signal_urls \subseteq PersistedUrls

\* C10: for a playlist whose entries are all filtered out, no probe is
\* submitted, and once the main thread is done with it its record says
\* all_filtered, in memory and, when the run has gone to its end, on disk.
C10_AllFilteredRecord ==
  /\ (cur.url # "" /\ AllFilteredBody(cur.url)) => wave.futures = <<>>
  /\ \A u \in DOMAIN processed_playlists :
        (AllFilteredBody(u) /\ cur.url # u)
        => processed_playlists[u].status = "all_filtered"
  /\ EndedClean =>
       \A u \in PersistedUrls :
          AllFilteredBody(u) => playlist_file.data[u].status = "all_filtered"

\* the fetch of playlist url yields the empty stream list
EmptyBody(url) == PlaylistBody(url) = <<>>

\* C11: for a playlist whose fetch yields no stream, once the main thread
\* is done with it its record says invalid, in memory and, when the run has
\* gone to its end, on disk.
C11_InvalidRecord ==
  /\ \A u \in DOMAIN processed_playlists :
        (EmptyBody(u) /\ cur.url # u)
        => processed_playlists[u].status = "invalid"
  /\ EndedClean =>
       \A u \in PersistedUrls :
          EmptyBody(u) => playlist_file.data[u].status = "invalid"

\* C12: on the playlist that lists "HBO Movies", "Radio FM Mix" and "BBC News"
\* (default filter flags), only "BBC News" is submitted to the prober, the
\* filter loop leaves filtered = 2, and the completed record of the playlist
\* has streams_filtered = 2.
C12_ExampleFiltering ==
  /\ \A t \in DOMAIN wave.futures :
        wave.futures[t].stream.info.channel_name = N_BBC
  /\ cur.url = "http://p/5" => global_stats.filtered = 2
  /\ \A u \in DOMAIN processed_playlists :
        (u = "http://p/5" /\ processed_playlists[u].status = "completed")
        => processed_playlists[u].streams_filtered = 2

\* the probes of the wave that have neither returned nor raised
Unfinished(w) == InState(w.futures, {"queued", "running", "probed"})

\* C13: the probes of a playlist with K > 0 candidates are submitted in one
\* step, all K of them, and none is added later; every queued or running
\* probe is a probe of the playlist in hand; that playlist has no record in
\* the playlist map while its wave exists, and the step that puts the record
\* finds every probe returned or raised and consumed; no download is
\* consumed while a playlist is in hand.
C13_WaveBarrier ==
  [][ /\ \A t \in DOMAIN wave.futures :
            /\ t \in DOMAIN cur.filtered_streams
            /\ wave.futures[t].stream = cur.filtered_streams[t]
      /\ wave.futures # <<>> => cur.url \notin DOMAIN processed_playlists
      /\ (DOMAIN wave'.futures # DOMAIN wave.futures /\ wave'.futures # <<>>)
           => /\ wave.futures = <<>>
              /\ cur' = cur
              /\ DOMAIN wave'.futures = DOMAIN cur.filtered_streams
              /\ Unfinished(wave') = DOMAIN wave'.futures
      /\ (Alive /\ Alive' /\ cur.filtered_streams # <<>>
          /\ processed_playlists' # processed_playlists)
           => /\ Unfinished(wave) = {}
              /\ wave.order = <<>>
              /\ wave.stream_count = Len(cur.filtered_streams)
              /\ \A u \in DOMAIN processed_playlists :
                    u # cur.url => /\ u \in DOMAIN processed_playlists'
                                   /\ processed_playlists'[u] = processed_playlists[u]
      /\ (Alive /\ Alive' /\ cur' # cur /\ cur' # NoCur)
           => cur = NoCur /\ wave = NoWave
    ]_vars

\* two probes of one playlist run while the next download is finished and
\* waits to be consumed
C13_Witness ==
  /\ Cardinality(InState(wave.futures, {"running", "probed"})) = 2
  /\ batch.order # <<>>
  /\ pc = "wave"

\* the downloads submitted to playlist_executor and not yet consumed by the
\* main thread
Unconsumed(b) == InState(b.futures, {"queued", "running", "done"})

\* C14: a chunk holds at most 2 * MAX_PLAYLIST_WORKERS URLs, the URLs that
\* follow playlist_index in the list; a chunk is submitted only when no
\* download of the previous chunk is left, and playlist_index moves past a
\* chunk only when each of its downloads has been consumed; so at most
\* 2 * MAX_PLAYLIST_WORKERS downloads are submitted and not yet consumed.
C14_ChunkedFetches ==
  [][ /\ Len(batch.futures) <= 2 * MAX_PLAYLIST_WORKERS
      /\ Cardinality(Unconsumed(batch)) <= 2 * MAX_PLAYLIST_WORKERS
      /\ \A i \in DOMAIN batch.futures :
            batch.futures[i].url = playlist_urls[playlist_index + i]
      /\ (Alive /\ Alive' /\ DOMAIN batch'.futures # DOMAIN batch.futures)
           => \/ /\ batch.futures = <<>>
                 /\ playlist_index' = playlist_index
                 /\ Unconsumed(batch') = DOMAIN batch'.futures
                 /\ batch'.futures # <<>>
              \/ /\ batch'.futures = <<>>
                 /\ Unconsumed(batch) = {}
                 /\ playlist_index' = playlist_index + Len(batch.futures)
      /\ (Alive /\ Alive' /\ playlist_index' # playlist_index)
           => Unconsumed(batch) = {} /\ batch'.futures = <<>>
    ]_vars

\* the second chunk is submitted, full, after the first one
C14_Witness ==
  /\ playlist_index = 2 * MAX_PLAYLIST_WORKERS
  /\ Cardinality(Unconsumed(batch)) = 2 * MAX_PLAYLIST_WORKERS
  /\ Len(playlist_urls) > 2 * MAX_PLAYLIST_WORKERS

\* C15: at most MAX_PLAYLIST_WORKERS downloads and at most
\* MAX_STREAM_WORKERS stream checks are executing at any time.
C15_PoolBounds ==
  /\ Cardinality(InState(batch.futures, {"running"})) <= MAX_PLAYLIST_WORKERS
  /\ Cardinality(InState(wave.futures, {"running", "probed"})) <= MAX_STREAM_WORKERS

\* both pools are full, and a stream check waits for a worker
C15_Witness ==
  /\ Cardinality(InState(batch.futures, {"running"})) = MAX_PLAYLIST_WORKERS
  /\ Cardinality(InState(wave.futures, {"running", "probed"})) = MAX_STREAM_WORKERS
  /\ InState(wave.futures, {"queued"}) # {}

\* C16: when the run has ended by itself, every URL submitted to
\* playlist_executor during the run is a key of processed_playlists and of
\* the playlist progress file.
C16_FetchedAreRecorded ==
  EndedClean => /\ fetched \subseteq DOMAIN processed_playlists
                /\ fetched \subseteq PersistedUrls

\* a run that ended by itself after it submitted every URL of the dump
C16_Witness ==
  /\ EndedClean
  /\ fetched = Range(sql_urls)
  /\ Len(sql_urls) > 1

\* C17: when the run has ended, the statistics satisfy
\* checked = working + failed.
C17_CheckedIsWorkingPlusFailed ==
  pc = "exited" => global_stats.checked = global_stats.working + global_stats.failed

\* a run that ended by itself with working and failed checks, some of them
\* answered from the stream map without a call of the backend
C17_Witness ==
  /\ EndedClean
  /\ global_stats.working >= 1
  /\ global_stats.failed >= 1
  /\ global_stats.checked > TotalProbes

\* C18: in every state of the run the statistics satisfy
\* filtered + checked <= total_streams.
C18_FilteredPlusCheckedBounded ==
  global_stats.filtered + global_stats.checked <= global_stats.total_streams

\* the output the next step writes into the output file: the main thread is
\* inside write_m3u_output, the file is open
Materializing == io # <<>> /\ Head(io) = "output_write"

\* the positions of the organized list that hold the group of position i:
\* same country, same base name
GroupPositions(organized, i) ==
  {j \in DOMAIN organized :
     /\ organized[j].stream.country = organized[i].stream.country
     /\ BaseNameOf[organized[j].stream.info.channel_name]
          = BaseNameOf[organized[i].stream.info.channel_name]}

\* the name of the entry that is k-th (from 0) in the group of base_name
RankedName(base_name, k, stream) ==
  (IF k = 0 THEN base_name
   ELSE base_name \o <<" ","b","a","c","k","u","p"," ">> \o IntStr(k))
  \o <<" ","[">> \o stream.resolution \o <<" ">> \o stream.video_bitrate \o <<"]">>

\* C19: in every output written from working_streams, the entries of one
\* (country, base_name) group are in non-increasing order of numeric
\* bitrate, the first is named with the plain base_name and the k-th after
\* it with "base_name backup k".
C19_GroupsRanked ==
  Materializing =>
    LET organized == organize_streams_by_country_and_bitrate(working_streams)
        out == write_m3u_output(organized)
    IN  \A i \in DOMAIN organized :
          LET before == {j \in GroupPositions(organized, i) : j < i}
              s == organized[i].stream
          IN  /\ \A j \in before :
                    BitrateOf[organized[j].stream.video_bitrate]
                      >= BitrateOf[s.video_bitrate]
              /\ out[i].name
                   = RankedName(BaseNameOf[s.info.channel_name], Cardinality(before), s)

\* C20: in every output written from working_streams, the group-title of
\* each entry is the country the resolver returns on the info of the
\* entry's stream: the country of its tvg_id if there is one, else the one
\* of the keyword scan of group_title and channel_name.  The streams the
\* rebuild loop took from the loaded stream progress are among them.
\* (CountryOf is the table of ResolveCountry.)
C20_GroupTitleIsCountry ==
  Materializing =>
    LET organized == organize_streams_by_country_and_bitrate(working_streams)
        out == write_m3u_output(organized)
    IN  \A i \in DOMAIN organized :
          LET s == organized[i].stream
          IN  out[i].group_title = CountryOf[[url |-> s.url, info |-> s.info]]

\* the second run writes an output with a stream rebuilt from the loaded
\* progress, resolved by its tvg_id, and a stream checked in this run,
\* resolved by the keyword scan
C20_Witness ==
  /\ Materializing
  /\ run = 2
  /\ \E i \in DOMAIN working_streams :
        /\ working_streams[i].checked_at[1] = 1
        /\ extract_country_from_tvg_id(working_streams[i].info.tvg_id) # None
  /\ \E i \in DOMAIN working_streams :
        /\ working_streams[i].checked_at[1] = 2
        /\ working_streams[i].info.tvg_id = <<>>

\* the checkpoint that follows a playlist is complete: the main thread is
\* back in the loop over the downloads, no file operation is left
CheckpointDone == pc = "batch_wait" /\ io = <<>> /\ processed_count > 0

OrchestratorWriting ==
  /\ Alive
  /\ pc # "graceful_exit"
  /\ io # <<>>
  /\ Head(io) \in {"playlist_write", "output_write"}

\* C22: the checkpoint of graceful_exit never starts while a checkpoint of
\* the main program is in progress, so the two never have the same file
\* open for writing.
C22_CheckpointsExclusive ==
  [][OrchestratorWriting => pc' # "graceful_exit"]_vars

\* a serialization of the stream map is in progress: json.dump walks it
Serializing == Alive /\ io # <<>> /\ Head(io) = "dump_end"

\* C23: the stream map is serialized under the store lock, so no prober
\* writes to the map while a serialization of it is in progress.
C23_SerializationUnderLock ==
  [][(Serializing /\ Alive') => stream_progress' = stream_progress]_vars

\* a line that begins with #EXTINF
IsExtinfLine(l) == StartsWith(Strip(l), W_EXTINF)

\* a line that is neither empty nor a comment
IsUrlLine(l) == Strip(l) # <<>> /\ ~StartsWith(Strip(l), <<"#">>)

\* the first line after line k that is neither empty nor a comment, or 0
UrlLineAfter(lines, k) ==
  LET later == {j \in (k + 1)..Len(lines) : IsUrlLine(lines[j])}
  IN  IF later = {} THEN 0 ELSE CHOOSE j \in later : \A m \in later : j <= m

\* C24: the parser returns one stream for each #EXTINF line that has a
\* later line which is neither empty nor a comment, in the order of the
\* #EXTINF lines: its URL is the first such later line and its info is
\* parsed from the #EXTINF line; an #EXTINF line with no such later line
\* gives no stream and takes none away.
C24_ExtinfPairedWithNextUrl ==
  call.fn = "download_and_parse_playlist" =>
    LET lines == call.args
        paired == {k \in DOMAIN lines :
                     IsExtinfLine(lines[k]) /\ UrlLineAfter(lines, k) # 0}
    IN  /\ Len(call.result) = Cardinality(paired)
        /\ \A k \in paired :
              LET n == Cardinality({m \in paired : m <= k})
              IN  /\ call.result[n].url = Strip(lines[UrlLineAfter(lines, k)])
                  /\ call.result[n].info = parse_channel_info(Strip(lines[k]))

\* C25: the parser, applied to the lines of a written output, returns for
\* each working stream of the accumulator a stream with that stream's URL,
\* tvg_id and group_title, and with its channel name followed by
\* " [resolution bitrate]".
C25_OutputParsesBack ==
  Materializing =>
    LET out == write_m3u_output(
                 organize_streams_by_country_and_bitrate(working_streams))
        parsed == download_and_parse_playlist(OutputLines(out, 1))
    IN  \A i \in DOMAIN working_streams :
          LET s == working_streams[i]
          IN  \E n \in DOMAIN parsed :
                /\ parsed[n].url = UrlChars(s.url)
                /\ parsed[n].info.tvg_id = s.info.tvg_id
                /\ parsed[n].info.group_title = s.info.group_title
                /\ parsed[n].info.channel_name
                     = s.info.channel_name \o <<" ","[">> \o s.resolution
                       \o <<" ">> \o s.video_bitrate \o <<"]">>

\* keyword occurs in text as a word of its own, between spaces or the ends
StandsAlone(keyword, text) ==
  \E p \in 0..(Len(text) - Len(keyword)) :
     /\ StartsWithAt(text, p, keyword)
     /\ p = 0 \/ text[p] = " "
     /\ p + Len(keyword) = Len(text) \/ text[p + Len(keyword) + 1] = " "

\* the codes the keyword scan can give for text: those with a keyword that
\* occurs in it, a keyword of 2 or 3 letters as a word of its own
ScanCodes(text) ==
  {COUNTRY_CHECKS[i].code : i \in
     {i \in DOMAIN COUNTRY_CHECKS :
        \E k \in DOMAIN COUNTRY_CHECKS[i].keywords :
           LET keyword == COUNTRY_CHECKS[i].keywords[k]
           IN  IF Len(keyword) <= 3 THEN StandsAlone(keyword, text)
               ELSE Contains(text, keyword)}}

\* C26: the resolver gives the known TLD after the last dot of tvg_id,
\* whatever group_title and channel_name hold; else the known 2-letter
\* prefix of tvg_id that #, - or _ follows; else a code of the keyword
\* scan, where a keyword of 2 or 3 letters counts only as a word of its
\* own; else Unknown.
C26_ResolverPrecedence ==
  call.fn = "ResolveCountry" =>
    LET id == call.args.tvg_id
        tld == Upper(LastDotPart(id))
        has_tld == (\E i \in DOMAIN id : id[i] = ".") /\ tld \in TLD_CODES
        has_prefix ==
          /\ Len(id) >= 3
          /\ id[3] \in {"#", "-", "_"}
          /\ \E i \in DOMAIN PREFIX_CODES : PREFIX_CODES[i] = Lower(SubSeq(id, 1, 2))
        text == Upper(call.args.group_title \o <<" ">> \o call.args.channel_name)
    IN  IF has_tld THEN call.result = tld
        ELSE IF has_prefix THEN call.result = Upper(SubSeq(id, 1, 2))
        ELSE IF ScanCodes(text) # {} THEN call.result \in ScanCodes(text)
        ELSE call.result = C_UNKNOWN

\* the resolver was called with no usable tvg_id on PARAMOUNT, where AR is
\* inside a longer word, and answered Unknown
C26_Witness ==
  /\ call.fn = "ResolveCountry"
  /\ call.args.tvg_id = <<"u","s","a">>
  /\ call.args.group_title = <<"N","e","w","s">>
  /\ call.args.channel_name = <<"P","A","R","A","M","O","U","N","T">>
  /\ call.result = C_UNKNOWN

\* C27: a process that ends by itself or by the signal handler exits with
\* code 1 if the backend is missing, the input file is missing, the dump
\* holds no playlist URL, or the run got to its end with an empty
\* accumulator, and with code 0 in every other case: the run got to its
\* end with working streams, nothing was left to process, or the handler
\* ended it.
C27_ExitCodes ==
  (pc = "exited" /\ exit.how # "killed") =>
    exit.code =
      IF exit.how = "interrupt" THEN 0
      ELSE IF ~IPTV_CHECKER_AVAILABLE \/ ~input_file_exists \/ sql_urls = <<>>
        THEN 1
      ELSE IF exit.how = "all_processed" THEN 0
      ELSE IF working_streams = <<>> THEN 1
      ELSE 0

\* the run went through every playlist, found no working stream and
\* exited with code 1
C27_Witness ==
  /\ pc = "exited"
  /\ exit.code = 1
  /\ IPTV_CHECKER_AVAILABLE /\ input_file_exists
  /\ fetched = Range(sql_urls)
  /\ fetched # {}
  /\ working_streams = <<>>

\* C28: in a run in which every fetch and every probe returns or raises
\* and no signal arrives, the process eventually exits by itself and every
\* URL of the input has then been consumed and has its record in the
\* playlist map, whatever fetches and probes failed on the way.
C28_RunTerminates ==
  <>(/\ pc = "exited"
     /\ exit.how \in {"complete", "no_working"}
     /\ Range(sql_urls) \subseteq DOMAIN processed_playlists
     /\ batch = NoBatch /\ wave = NoWave)

\* the run has ended by itself with every URL consumed, although a fetch
\* gave nothing, a probe found a dead stream and another probe raised
C28_Witness ==
  /\ pc = "exited"
  /\ exit.how = "complete"
  /\ events = 0
  /\ Range(sql_urls) \subseteq DOMAIN processed_playlists
  /\ global_stats.failed > 0
  /\ \E k \in DOMAIN probes : ~HasKey(stream_progress, k)

\* C29: when a step of save_stream_progress raises, the stream progress
\* file stays as it was, no temp file is left, and the main thread goes on
\* with what follows the save: the orchestrator does not see the failure.
C29_FailedSaveIsHarmless ==
  [][(\E step \in SaveSteps : SaveStreamProgressFails(step))
       => /\ stream_file' = stream_file
          /\ stream_tmp' = Absent
          /\ pc' = pc
          /\ Alive'
          /\ io' = Tail(io)]_vars

\* the save of the checkpoint after a wave has failed and the checkpoint
\* has gone on to its end: no temp file is left and the stream file is
\* older than the stream map
C29_Witness ==
  /\ CheckpointDone
  /\ stream_tmp = Absent
  /\ stream_file.st = "ok"
  /\ stream_file.data # stream_progress

\* the keywords of the adult family, as texts
AdultWords == {[i \in DOMAIN a |-> a[i][1]] : a \in PAT_ADULT}

\* w is one of the tokens that spaces delimit in text
HasToken(text, w) ==
  \E p \in 0..Len(text) :
     /\ StartsWithAt(text, p, w)
     /\ p = 0 \/ text[p] = " "
     /\ p + Len(w) = Len(text) \/ text[p + Len(w) + 1] = " "

\* C30: with the filters on and adult content not included,
\* should_filter_stream is true for every channel name and group title of
\* which one has a keyword of the adult family, "+18" and "18+" included,
\* as a token of its own between spaces.
C30_AdultTokensFiltered ==
  (call.fn = "should_filter_stream" /\ ENABLE_FILTERS /\ ~INCLUDE_ADULT) =>
    ((\E w \in AdultWords : \E i \in 1..2 : HasToken(Lower(call.args[i]), w))
       => call.result = TRUE)

\* the codes of priority_checks, in the order of the list
PriorityCodes == << <<"U","S">>, <<"U","K">>, <<"I","N","T">> >>

\* C31: when tvg_id gives no country and one of the codes US, UK, INT is a
\* word of its own in group_title + " " + channel_name, the resolver gives
\* a code of the priority list, and it gives US when US is such a word:
\* group_title "US Sports" resolves to US.
C31_PriorityCodesAlone ==
  (call.fn = "ResolveCountry"
     /\ extract_country_from_tvg_id(call.args.tvg_id) = None) =>
    LET text == Upper(call.args.group_title \o <<" ">> \o call.args.channel_name)
        alone == {i \in DOMAIN PriorityCodes : StandsAlone(PriorityCodes[i], text)}
    IN  /\ alone # {} => \E i \in DOMAIN PriorityCodes : call.result = PriorityCodes[i]
        /\ 1 \in alone => call.result = PriorityCodes[1]

\* C32: the main thread consumes the downloads of a chunk in the order in
\* which they ended: the download it takes is the one that ended first
\* among those that have ended and are not yet consumed.
C32_ConsumedInCompletionOrder ==
  [][\A i \in DOMAIN batch.futures :
       (/\ i \in DOMAIN batch'.futures
        /\ batch.futures[i].st = "done"
        /\ batch'.futures[i].st = "consumed")
         => i = Head(batch.order)]_vars

\* C33: in every state of a running process, every result of the
\* accumulator has status working and is the result the stream map holds
\* for its key.
C33_AccumulatorMatchesMap ==
  Alive =>
    \A i \in DOMAIN working_streams :
       /\ working_streams[i].status = "working"
       /\ HasKey(stream_progress, ResultKey(working_streams[i]))
       /\ GetKey(stream_progress, ResultKey(working_streams[i])) = working_streams[i]

\* C34: whatever the files hold, for every URL the playlist progress file
\* records as completed the stream progress file holds a result for the
\* key of every entry of that playlist that the filter lets through.
C34_CompletedMeansMemoized ==
  playlist_file.st = "ok" =>
    \A u \in DOMAIN playlist_file.data :
       playlist_file.data[u].status = "completed"
         => UnfilteredKeys(u) \subseteq PersistedKeys

\* the probes of the wave that gave a working result
WorkingOfWave(w) ==
  {t \in DOMAIN w.futures : w.futures[t].result.status = "working"}

\* C35: the record written when a playlist is marked completed has
\* streams_filtered + streams_checked = streams_found, and its
\* working_streams is the number of probes of this playlist's wave that
\* gave a working result, at most streams_checked.
C35_CompletedRecordCounts ==
  [][(Alive /\ Alive' /\ cur # NoCur /\ cur' = NoCur) =>
       LET record == processed_playlists'[cur.url]
       IN  /\ record.status = "completed"
           /\ record.streams_filtered + record.streams_checked
                = record.streams_found
           /\ record.working_streams = Cardinality(WorkingOfWave(wave))
           /\ record.working_streams <= record.streams_checked]_vars

\* the playlists the main thread has handled so far in this run: those of
\* the chunks before and those consumed of this chunk, but the one in hand
Handled ==
  playlist_index + Cardinality(InState(batch.futures, {"consumed"}))
    - (IF cur = NoCur THEN 0 ELSE 1)

\* C36: processed_count is never more than the number of playlists to
\* process, and when the main thread has handled a playlist and waits for
\* the next download it is the number of playlists handled so far.
C36_ProcessedCounter ==
  Alive =>
    /\ processed_count <= Len(playlist_urls)
    /\ (pc = "batch_wait" /\ cur = NoCur) => processed_count = Handled

\* the locks thread t holds
Held(t) == {l \in {"lock", "stats_lock"} : sync[l] = t}

\* the process has ended: by os._exit, or the main thread is through
Ended == sync.signal = "exited" \/ sync.main = <<"end", "none">>

\* C37: no state is a deadlock.  A thread that waits for the store lock
\* holds no lock, and a thread that waits for the stats lock holds at most
\* the store lock; while the process runs some thread can take a step; and
\* the handler can take its next step in every state in which it has
\* started, whatever the main thread held when the signal came.
C37_NoDeadlock ==
  /\ \A l \in {"lock", "stats_lock"} :
        sync.main = <<"want", l>> => Held("main") = {}
  /\ \A p \in Probers :
        /\ sync.prober[p] \in {"want_lock_check", "want_lock_store"}
             => Held(p) = {}
        /\ sync.prober[p] \in {"want_stats_memo", "want_stats_cur",
                               "want_stats_res"}
             => Held(p) \subseteq {"lock"}
  /\ ~Ended => ENABLED NextLocks
  /\ sync.signal \in {"save_streams", "save_playlists", "write_output"}
       => ENABLED HandlerStep

\* the handler has gone to its end although the signal found the main
\* thread inside save_stream_progress, with the store lock, and a worker
\* still waits for that lock
C37_Witness ==
  /\ sync.signal = "exited"
  /\ sync.main = <<"in", "lock">>
  /\ sync.lock = "main"
  /\ \E p \in Probers : sync.prober[p] = "want_lock_store"
  /\ \E p \in Probers : sync.prober[p] = "in_stats_cur"

\* C38: when a run has ended without interruption and no backend call of
\* the run has raised, filtered + checked = total_streams: every entry of a
\* fetched playlist was filtered or counted as checked, once.
C38_FilteredPlusCheckedIsTotal ==
  (EndedClean /\ ~hist.raised)
  => global_stats.filtered + global_stats.checked = global_stats.total_streams

\* a run has ended with entries filtered, entries probed and entries
\* answered from the stream map, and no probe has raised
C38_Witness ==
  /\ EndedClean /\ ~hist.raised
  /\ global_stats.filtered > 0
  /\ TotalProbes > 0
  /\ global_stats.checked > TotalProbes

====
